---- MODULE Spec2Model ----
(***************************************************************************)
(* Model of @checkend/nextjs: the configuration store, the matcher, the    *)
(* beforeSend callback chain, the edge runtime's notify / notifySync, the  *)
(* server / client delegation shims, the capture harness for tests, the   *)
(* request wrappers and the client's initialisation.                       *)
(*                                                                         *)
(* JavaScript values are modelled as follows.                              *)
(*   - a string is a TLA+ string; concatenation, startsWith, includes and   *)
(*     toLowerCase are computed on its characters;                         *)
(*   - an object is a function from field names to values; a field that    *)
(*     is undefined is absent from the DOMAIN;                             *)
(*   - null is the record Null.                                            *)
(***************************************************************************)
EXTENDS Integers, Sequences, FiniteSets, TLC

VARIABLES
    globalConfig,      \* config.ts: let globalConfig
    configuredLogger,  \* config.ts: let configuredLogger
    nodeSdk,           \* server.ts: let nodeSdk (TRUE once the module is loaded)
    browserSdk,        \* client.ts: let browserSdk (TRUE once the module is loaded)
    capturedNotices,   \* testing.ts: let capturedNotices
    isTestMode,        \* testing.ts: let isTestMode
    originalFetch,     \* testing.ts: let originalFetch
    fetch,             \* globalThis.fetch: the outbound transport installed
    initialized,       \* client.ts: let initialized
    pending,           \* the initClient() calls suspended at await getBrowserSdk()
    configureCalls,    \* the configure calls the browser SDK has received
    call               \* the API call the host has made and not yet taken the
                       \* outcome of: arguments, outcome, effects

vars ==
    <<globalConfig, configuredLogger, nodeSdk, browserSdk,
      capturedNotices, isTestMode, originalFetch, fetch,
      initialized, pending, configureCalls, call>>

\* the state of the capture harness and the transport it replaces
testingVars == <<capturedNotices, isTestMode, originalFetch, fetch>>

\* the state of the client's initialisation
clientVars == <<initialized, pending, configureCalls>>

-----------------------------------------------------------------------------
(* Bounds of the model *)

\* most notices the capture harness holds at a time
MaxNotices == 2

\* most initClient() calls suspended at a time
MaxPending == 2

\* longest beforeSend array drawn for the callback-chain specification
MaxCallbacks == 3
\* longest beforeSend array drawn for the edge specification
MaxEdgeCallbacks == 2
\* levels of objects and arrays wrapped around the data given to sanitize
MaxNesting == 3

-----------------------------------------------------------------------------
(* Values *)

Null == [null |-> TRUE]

EmptyObject == [x \in {} |-> x]

\* an object with the single field f
Field(f, v) == [x \in {f} |-> v]

Has(obj, f) == f \in DOMAIN obj

\* the fields of an object that are among the given ones and not undefined
Pick(options, fields) == [ f \in (DOMAIN options) \cap fields |-> options[f] ]

\* the sequences over S of length 0..n
SeqsUpTo(S, n) == UNION { [1..k -> S] : k \in 0..n }

\* String.prototype.startsWith
StartsWith(s, p) ==
    /\ Len(p) <= Len(s)
    /\ SubSeq(s, 1, Len(p)) = p

\* String.prototype.includes
Includes(s, p) ==
    \E i \in 0..(Len(s) - Len(p)) : SubSeq(s, i + 1, i + Len(p)) = p

-----------------------------------------------------------------------------
(* Configuration store *)

ConfigDefaults ==
    [enableClient |-> TRUE, enableServer |-> TRUE, enableEdge |-> TRUE,
     debug |-> FALSE, useDefaultFilterKeys |-> TRUE,
     timeout |-> 30000, connectTimeout |-> 10000, maxQueueSize |-> 1000,
     shutdownTimeout |-> 5000]

\* !options.apiKey: the credential is absent or the empty string
MissingApiKeyAbsentOnly(options) == ~Has(options, "apiKey")
MissingApiKey(options) == ~Has(options, "apiKey") \/ options.apiKey = ""

\* { ...defaults, ...options }
MergeConfigDefaultsWin(options) == ConfigDefaults @@ options
MergeConfig(options) == options @@ ConfigDefaults

\* globalConfig.logger || createDefaultLogger(globalConfig.debug ?? false)
LoggerFor(config) ==
    IF Has(config, "logger")
    THEN [kind |-> "user"]
    ELSE [kind |-> "default", debug |-> config.debug]

\* the calls log(level, message, ...args) makes on the configured logger
Log(logger, level, message, args) ==
    IF logger = Null THEN <<>>
    ELSE << [level |-> level, message |-> "[Checkend] " \o message, args |-> args] >>

\* String.prototype.slice(0, end)
SliceFromStart(str, end) == SubSeq(str, 1, IF Len(str) < end THEN Len(str) ELSE end)

\* { ...globalConfig, apiKey: globalConfig.apiKey.slice(0, 8) + '...' }
EchoedConfig(config) == [config EXCEPT !.apiKey = SliceFromStart(@, 8) \o "..."]

isInitialized == globalConfig # Null

\* init(options)
init(options) ==
    IF MissingApiKey(options)
    THEN /\ call' = [op |-> "init", options |-> options, outcome |-> "threw",
                     error |-> "apiKey is required", logged |-> <<>>]
         /\ UNCHANGED <<globalConfig, configuredLogger, nodeSdk, browserSdk, testingVars, clientVars>>
    ELSE LET config == MergeConfig(options)
             logger == LoggerFor(config)
         IN /\ globalConfig' = config
            /\ configuredLogger' = logger
            /\ call' = [op |-> "init", options |-> options, outcome |-> "returned",
                        result |-> config,
                        logged |-> IF config.debug
                                   THEN Log(logger, "debug", "Initialized with config:",
                                            << EchoedConfig(config) >>)
                                   ELSE <<>>]
            /\ UNCHANGED <<nodeSdk, browserSdk, testingVars, clientVars>>

\* getConfig(): the live configuration, or the not-initialized error
getConfigOrDefaults(config) ==
    [threw |-> FALSE, value |-> IF config = Null THEN ConfigDefaults ELSE config]
getConfig(config) ==
    IF config = Null
    THEN [threw |-> TRUE, error |-> "Checkend not initialized"]
    ELSE [threw |-> FALSE, value |-> config]

\* the exported getConfig()
GetConfig ==
    /\ call' = IF getConfig(globalConfig).threw
               THEN [op |-> "getConfig", outcome |-> "threw",
                     error |-> getConfig(globalConfig).error]
               ELSE [op |-> "getConfig", outcome |-> "returned",
                     result |-> getConfig(globalConfig).value]
    /\ UNCHANGED <<globalConfig, configuredLogger, nodeSdk, browserSdk, testingVars, clientVars>>

\* the exported isInitialized()
IsInitialized ==
    /\ call' = [op |-> "isInitialized", outcome |-> "returned", result |-> isInitialized]
    /\ UNCHANGED <<globalConfig, configuredLogger, nodeSdk, browserSdk, testingVars, clientVars>>

\* The host runs to completion: it makes one call at a time and takes its
\* outcome before it makes the next one.
Idle == call.op = "idle"

Return ==
    /\ ~Idle
    /\ call' = [op |-> "idle"]
    /\ UNCHANGED <<globalConfig, configuredLogger, nodeSdk, browserSdk, testingVars, clientVars>>

\* reset()
resetLoggerOnly ==
    /\ configuredLogger' = Null
    /\ call' = [op |-> "reset", outcome |-> "returned"]
    /\ UNCHANGED <<globalConfig, nodeSdk, browserSdk, testingVars, clientVars>>

reset ==
    /\ globalConfig' = Null
    /\ configuredLogger' = Null
    /\ call' = [op |-> "reset", outcome |-> "returned"]
    /\ UNCHANGED <<nodeSdk, browserSdk, testingVars, clientVars>>

-----------------------------------------------------------------------------
(* Callback chain *)

\* A beforeSend callback is modelled by what it does to the event it is given:
\*   append : (event) => ({ ...event, message: event.message + s })
\*   mark   : (event) => ({ ...event, context, tags, fingerprint }) (a replacement)
\*   null   : () => null
\*   throw  : () => { throw ... }
MarkContext == Field("version", "1.0.0")
MarkTags == << "marked" >>
MarkFingerprint == "fp-marked"

CallbackKinds ==
    { [k |-> "append", s |-> "1"], [k |-> "append", s |-> "2"],
      [k |-> "mark"], [k |-> "null"], [k |-> "throw"] }

\* callback(event): [threw, value]. Reading a property of null throws.
Invoke(callback, event) ==
    CASE callback.k = "null" -> [threw |-> FALSE, value |-> Null]
      [] callback.k = "throw" -> [threw |-> TRUE]
      [] callback.k = "append" ->
            IF event = Null THEN [threw |-> TRUE]
            ELSE [threw |-> FALSE,
                  value |-> [event EXCEPT !.message = @ \o callback.s]]
      [] callback.k = "mark" ->
            IF event = Null THEN [threw |-> TRUE]
            ELSE [threw |-> FALSE,
                  value |-> [context |-> MarkContext, tags |-> MarkTags,
                             fingerprint |-> MarkFingerprint] @@ event]

\* Array.isArray(config.beforeSend) ? config.beforeSend : [config.beforeSend]
Callbacks(beforeSend) ==
    IF beforeSend.array THEN beforeSend.fns ELSE << beforeSend.fn >>

\* if (result === null) break
BreakOnNullOff(result) == FALSE
BreakOnNull(result) == result = Null

\* catch (err) { log(...) }: result keeps the value it had before the call
ResultAfterThrowDrops(result) == Null
ResultAfterThrow(result) == result

\* for (const callback of callbacks): the index of the callback the i-th iteration takes
NextCallbackReversed(callbacks, i) == Len(callbacks) + 1 - i
NextCallback(callbacks, i) == i

\* the for loop of applyBeforeSend from its i-th iteration on: the final result,
\* the invocations made (callback index, argument, what it returned) and the
\* logger calls
RECURSIVE BeforeSendLoop(_, _, _, _, _, _)
BeforeSendLoop(logger, callbacks, i, result, invoked, logged) ==
    IF i > Len(callbacks) \/ BreakOnNull(result)
    THEN [result |-> result, invoked |-> invoked, logged |-> logged]
    ELSE LET index == NextCallback(callbacks, i)
             r == Invoke(callbacks[index], result)
             inv == Append(invoked, [index |-> index, arg |-> result, ret |-> r])
         IN IF r.threw
            THEN BeforeSendLoop(logger, callbacks, i + 1, ResultAfterThrow(result), inv,
                     logged \o Log(logger, "error", "beforeSend callback threw an error:",
                                   << r >>))
            ELSE BeforeSendLoop(logger, callbacks, i + 1, r.value, inv, logged)

\* applyBeforeSend(event) under a live configuration
applyBeforeSend(config, logger, event) ==
    IF ~Has(config, "beforeSend")
    THEN [result |-> event, invoked |-> <<>>, logged |-> <<>>]
    ELSE BeforeSendLoop(logger, Callbacks(config.beforeSend), 1, event, <<>>, <<>>)

\* the exported applyBeforeSend: getConfig() throws when nothing is live
ApplyBeforeSend(event) ==
    /\ IF getConfig(globalConfig).threw
       THEN call' = [op |-> "applyBeforeSend", event |-> event, outcome |-> "threw",
                     error |-> getConfig(globalConfig).error, invoked |-> <<>>,
                     logged |-> <<>>]
       ELSE LET r == applyBeforeSend(getConfig(globalConfig).value, configuredLogger,
                                     event)
            IN call' = [op |-> "applyBeforeSend", event |-> event,
                        outcome |-> "returned", result |-> r.result,
                        invoked |-> r.invoked, logged |-> r.logged]
    /\ UNCHANGED <<globalConfig, configuredLogger, nodeSdk, browserSdk, testingVars, clientVars>>

-----------------------------------------------------------------------------
(* Strings *)

UpperCaseLetters == "ABCDEFGHIJKLMNOPQRSTUVWXYZ"
LowerCaseLetters == "abcdefghijklmnopqrstuvwxyz"

\* toLowerCase of a one-character string
LowerCaseOf ==
    [ c \in { SubSeq(UpperCaseLetters, i, i) : i \in 1..Len(UpperCaseLetters) } |->
        LET i == CHOOSE i \in 1..Len(UpperCaseLetters) : SubSeq(UpperCaseLetters, i, i) = c
        IN SubSeq(LowerCaseLetters, i, i) ]

LowerChar(c) == IF c \in DOMAIN LowerCaseOf THEN LowerCaseOf[c] ELSE c

\* String.prototype.toLowerCase
RECURSIVE toLowerCase(_)
toLowerCase(s) ==
    IF Len(s) = 0 THEN ""
    ELSE LowerChar(SubSeq(s, 1, 1)) \o toLowerCase(SubSeq(s, 2, Len(s)))

DecimalDigits == "0123456789"

\* String(n) for a natural number
RECURSIVE NumberToString(_)
NumberToString(n) ==
    IF n < Len(DecimalDigits)
    THEN SubSeq(DecimalDigits, n + 1, n + 1)
    ELSE NumberToString(n \div Len(DecimalDigits))
            \o SubSeq(DecimalDigits, (n % Len(DecimalDigits)) + 1,
                      (n % Len(DecimalDigits)) + 1)

\* parseInt(digits, 10) for a string of decimal digits
RECURSIVE parseInt(_)
parseInt(digits) ==
    IF Len(digits) = 0 THEN 0
    ELSE LET last == SubSeq(digits, Len(digits), Len(digits))
             d == CHOOSE d \in 0..(Len(DecimalDigits) - 1) :
                      SubSeq(DecimalDigits, d + 1, d + 1) = last
         IN parseInt(SubSeq(digits, 1, Len(digits) - 1)) * Len(DecimalDigits) + d

-----------------------------------------------------------------------------
(* Matcher *)

\* pattern.test(str) for the patterns /^source/ (anchored) and /source/
RegexTest(pattern, str) ==
    IF pattern.anchored
    THEN StartsWith(str, pattern.source)
    ELSE Includes(str, pattern.source)

\* route === pattern || route.startsWith(pattern)
RouteMatchesStringExact(route, pattern) == route = pattern
RouteMatchesString(route, pattern) == route = pattern \/ StartsWith(route, pattern)

\* shouldIgnoreRoute(route) under a live configuration
shouldIgnoreRoute(config, route) ==
    IF ~Has(config, "ignoredRoutes") \/ Len(config.ignoredRoutes) = 0
    THEN FALSE
    ELSE \E i \in 1..Len(config.ignoredRoutes) :
             LET pattern == config.ignoredRoutes[i]
             IN IF pattern.regex
                THEN RegexTest(pattern, route)
                ELSE RouteMatchesString(route, pattern.s)

\* the exported shouldIgnoreRoute(route)
ShouldIgnoreRoute(route) ==
    /\ call' = IF getConfig(globalConfig).threw
               THEN [op |-> "shouldIgnoreRoute", route |-> route, outcome |-> "threw",
                     error |-> getConfig(globalConfig).error]
               ELSE [op |-> "shouldIgnoreRoute", route |-> route, outcome |-> "returned",
                     result |-> shouldIgnoreRoute(getConfig(globalConfig).value, route)]
    /\ UNCHANGED <<globalConfig, configuredLogger, nodeSdk, browserSdk, testingVars, clientVars>>

\* error.name === pattern || error.message.includes(pattern)
ExceptionMatchesStringNameOnly(error, pattern) == error.name = pattern
ExceptionMatchesString(error, pattern) ==
    error.name = pattern \/ Includes(error.message, pattern)

\* shouldIgnoreException(error) under a live configuration
shouldIgnoreException(config, error) ==
    IF ~Has(config, "ignoredExceptions") \/ Len(config.ignoredExceptions) = 0
    THEN FALSE
    ELSE LET errorString == error.name \o ": " \o error.message
         IN \E i \in 1..Len(config.ignoredExceptions) :
                LET pattern == config.ignoredExceptions[i]
                IN IF pattern.regex
                   THEN RegexTest(pattern, errorString)
                   ELSE ExceptionMatchesString(error, pattern.s)

\* the exported shouldIgnoreException(error)
ShouldIgnoreException(error) ==
    /\ call' = IF getConfig(globalConfig).threw
               THEN [op |-> "shouldIgnoreException", error |-> error,
                     outcome |-> "threw", thrown |-> getConfig(globalConfig).error]
               ELSE [op |-> "shouldIgnoreException", error |-> error,
                     outcome |-> "returned",
                     result |-> shouldIgnoreException(getConfig(globalConfig).value,
                                                      error)]
    /\ UNCHANGED <<globalConfig, configuredLogger, nodeSdk, browserSdk, testingVars, clientVars>>

-----------------------------------------------------------------------------
(* Filter keys *)

FILTERED == "[FILTERED]"

DEFAULT_FILTER_KEYS ==
    <<"password", "passwd", "secret", "token", "api_key", "apiKey",
      "api-key", "authorization", "auth", "credentials", "session",
      "sessionId", "session_id", "credit_card", "creditCard", "card_number",
      "cardNumber", "cvv", "cvc", "ccv", "expiry", "expiration", "ssn",
      "social_security", "socialSecurity", "sin", "national_id",
      "nationalId", "private_key", "privateKey", "private-key",
      "access_token", "accessToken", "access-token", "refresh_token",
      "refreshToken", "refresh-token", "bearer", "stripe_key", "stripeKey",
      "aws_secret", "awsSecret", "database_url", "databaseUrl",
      "connection_string", "connectionString" >>

\* [...new Set(list)]: the first occurrence of every element, in order
Dedupe(list) ==
    LET entries == [ i \in 1..Len(list) |-> [at |-> i, element |-> list[i]] ]
        first == SelectSeq(entries,
                     LAMBDA e : \A j \in 1..(e.at - 1) : list[j] # e.element)
    IN [ k \in 1..Len(first) |-> first[k].element ]

\* getFilterKeys() under a live configuration
getFilterKeys(config) ==
    LET customKeys == IF Has(config, "filterKeys") THEN config.filterKeys ELSE <<>>
    IN IF config.useDefaultFilterKeys # FALSE
       THEN Dedupe(DEFAULT_FILTER_KEYS \o customKeys)
       ELSE customKeys

\* new RegExp(filterKeys.join('|'), 'i'), for keys without regular expression
\* metacharacters: the alternatives of the pattern, letter case folded
FilterPatternVerbatim(filterKeys) == filterKeys
FilterPattern(filterKeys) == [ i \in 1..Len(filterKeys) |-> toLowerCase(filterKeys[i]) ]

\* filterPattern.test(key); the empty pattern matches every key
PatternTest(filterPattern, key) ==
    \/ Len(filterPattern) = 0
    \/ LET lowered == toLowerCase(key)
       IN \E i \in 1..Len(filterPattern) : Includes(lowered, filterPattern[i])

\* new RegExp(filterKeys.join('|'), 'i').test(key)
FilterPatternTest(filterKeys, key) == PatternTest(FilterPattern(filterKeys), key)

\* the exported getFilterKeys()
GetFilterKeys ==
    /\ call' = IF getConfig(globalConfig).threw
               THEN [op |-> "getFilterKeys", outcome |-> "threw",
                     error |-> getConfig(globalConfig).error]
               ELSE [op |-> "getFilterKeys", outcome |-> "returned",
                     result |-> getFilterKeys(getConfig(globalConfig).value)]
    /\ UNCHANGED <<globalConfig, configuredLogger, nodeSdk, browserSdk, testingVars, clientVars>>

-----------------------------------------------------------------------------
(* Sanitizer *)

\* The data given to sanitize is modelled with its JavaScript type written out:
\* typeof value and Array.isArray(value) read the type field; the characters of a
\* string, the items of an array and the fields of an object are held under a
\* field of that name.
JsNull == [type |-> "null"]
JsUndefined == [type |-> "undefined"]
JsString(s) == [type |-> "string", string |-> s]
JsNumber(n) == [type |-> "number", number |-> n]
JsArray(items) == [type |-> "array", items |-> items]
JsObject(fields) == [type |-> "object", fields |-> fields]

MAX_DEPTH == "[MAX_DEPTH]"

\* if (depth > maxDepth)
DepthExceededAtLimit(depth, maxDepth) == depth >= maxDepth
DepthExceeded(depth, maxDepth) == depth > maxDepth

\* value.length > 10000 ? value.slice(0, 10000) + '...[TRUNCATED]' : value
TruncateMarkedInFront(str) ==
    IF Len(str) > 10000 THEN "[TRUNCATED]..." \o SliceFromStart(str, 10000) ELSE str
Truncate(str) ==
    IF Len(str) > 10000 THEN SliceFromStart(str, 10000) \o "...[TRUNCATED]" ELSE str

\* sanitizeValue(value, depth)
RECURSIVE sanitizeValue(_, _, _, _)
sanitizeValue(filterPattern, maxDepth, value, depth) ==
    IF DepthExceeded(depth, maxDepth) THEN JsString(MAX_DEPTH)
    ELSE CASE value.type \in {"null", "undefined"} -> value
           [] value.type = "string" -> JsString(Truncate(value.string))
           [] value.type = "array" ->
                 JsArray([ i \in 1..Len(value.items) |->
                             sanitizeValue(filterPattern, maxDepth, value.items[i],
                                           depth + 1) ])
           [] value.type = "object" ->
                 JsObject([ key \in DOMAIN value.fields |->
                              IF PatternTest(filterPattern, key)
                              THEN JsString(FILTERED)
                              ELSE sanitizeValue(filterPattern, maxDepth,
                                                 value.fields[key],
                                                 depth + 1) ])
           [] OTHER -> value

\* sanitize(data, maxDepth) under a live configuration
sanitize(config, data, maxDepth) ==
    LET filterKeys == getFilterKeys(config)
        filterPattern == FilterPattern(filterKeys)
    IN sanitizeValue(filterPattern, maxDepth, data, 0)

\* the exported sanitize(data, maxDepth = 10); args holds maxDepth when the
\* caller passes it
Sanitize(data, args) ==
    LET maxDepth == IF Has(args, "maxDepth") THEN args.maxDepth ELSE 10
    IN /\ call' = IF getConfig(globalConfig).threw
                  THEN [op |-> "sanitize", data |-> data, maxDepth |-> maxDepth,
                        outcome |-> "threw", error |-> getConfig(globalConfig).error]
                  ELSE [op |-> "sanitize", data |-> data, maxDepth |-> maxDepth,
                        outcome |-> "returned",
                        result |-> sanitize(getConfig(globalConfig).value, data,
                                            maxDepth)]
       /\ UNCHANGED <<globalConfig, configuredLogger, nodeSdk, browserSdk, testingVars, clientVars>>

-----------------------------------------------------------------------------
(* Capture harness *)

\* The values of globalThis.fetch: no fetch at all, the platform's, a function
\* the host assigned, and the interceptor createMockFetch() returns. The
\* interceptor reads capturedNotices and originalFetch from the module when it
\* is called, so every interceptor behaves alike.
NoFetch == [kind |-> "undefined"]
NativeFetch == [kind |-> "native"]
HostFetch == [kind |-> "host"]
MockFetch == [kind |-> "mock"]

\* if (originalFetch): neither null nor undefined
Available(original) == original # Null /\ original # NoFetch

\* the configuration setup passes to init before the caller's overrides
TestDefaults ==
    [apiKey |-> "test-api-key", endpoint |-> "https://test.checkend.io",
     environment |-> "test", debug |-> FALSE]

\* { apiKey: 'test-api-key', ..., ...config }
TestOptionsDefaultsWin(config) == TestDefaults @@ config
TestOptions(config) == config @@ TestDefaults

AlreadyInTestMode == "[Checkend Testing] Already in test mode. Call teardown() first."

NotInTestMode == "[Checkend Testing] Not in test mode. Call setup() first."

\* setup: if (isTestMode) { console.warn(...); return }
AlreadyActiveIgnored == FALSE
AlreadyActive == isTestMode

\* setup(config)
setup(config) ==
    IF AlreadyActive
    THEN /\ call' = [op |-> "setup", config |-> config, outcome |-> "returned",
                     warned |-> << AlreadyInTestMode >>, logged |-> <<>>]
         /\ UNCHANGED <<globalConfig, configuredLogger, nodeSdk, browserSdk, testingVars, clientVars>>
    ELSE LET options == TestOptions(config)
         IN IF MissingApiKey(options)
            THEN \* reset() has run when init throws
                 /\ globalConfig' = Null
                 /\ configuredLogger' = Null
                 /\ call' = [op |-> "setup", config |-> config, outcome |-> "threw",
                             error |-> "apiKey is required", warned |-> <<>>,
                             logged |-> <<>>]
                 /\ UNCHANGED <<nodeSdk, browserSdk, testingVars, clientVars>>
            ELSE LET live == MergeConfig(options)
                     logger == LoggerFor(live)
                 IN /\ globalConfig' = live
                    /\ configuredLogger' = logger
                    /\ capturedNotices' = <<>>
                    /\ originalFetch' = fetch
                    /\ fetch' = MockFetch
                    /\ isTestMode' = TRUE
                    /\ call' = [op |-> "setup", config |-> config,
                                outcome |-> "returned", warned |-> <<>>,
                                logged |-> IF live.debug
                                           THEN Log(logger, "debug",
                                                    "Initialized with config:",
                                                    << EchoedConfig(live) >>)
                                           ELSE <<>>]
                    /\ UNCHANGED <<nodeSdk, browserSdk, clientVars>>

\* teardown: if (originalFetch) { globalThis.fetch = originalFetch; originalFetch = null }
RestoreFetchNever(original, installed) ==
    [fetch |-> installed, originalFetch |-> original]
RestoreFetch(original, installed) ==
    IF Available(original)
    THEN [fetch |-> original, originalFetch |-> Null]
    ELSE [fetch |-> installed, originalFetch |-> original]

\* teardown()
teardown ==
    IF ~isTestMode
    THEN /\ call' = [op |-> "teardown", outcome |-> "returned"]
         /\ UNCHANGED <<globalConfig, configuredLogger, nodeSdk, browserSdk, testingVars, clientVars>>
    ELSE /\ fetch' = RestoreFetch(originalFetch, fetch).fetch
         /\ originalFetch' = RestoreFetch(originalFetch, fetch).originalFetch
         /\ globalConfig' = Null
         /\ configuredLogger' = Null
         /\ capturedNotices' = <<>>
         /\ isTestMode' = FALSE
         /\ call' = [op |-> "teardown", outcome |-> "returned"]
         /\ UNCHANGED <<nodeSdk, browserSdk, clientVars>>

\* assertTestMode()
assertTestModeOff == [threw |-> FALSE]
assertTestMode ==
    IF isTestMode THEN [threw |-> FALSE] ELSE [threw |-> TRUE, error |-> NotInTestMode]

\* an operation that calls assertTestMode() and then reads the store: result is
\* an object holding the value returned, without it when that is undefined
Query(op, args, result) ==
    /\ call' = IF assertTestMode.threw
               THEN [op |-> op, args |-> args, outcome |-> "threw",
                     error |-> assertTestMode.error]
               ELSE [op |-> op, args |-> args, outcome |-> "returned"] @@ result
    /\ UNCHANGED <<globalConfig, configuredLogger, nodeSdk, browserSdk, testingVars, clientVars>>

\* notices(): [...capturedNotices]
notices == Query("notices", <<>>, Field("result", capturedNotices))

\* lastNotice(): capturedNotices[capturedNotices.length - 1]
lastNotice ==
    Query("lastNotice", <<>>,
          IF Len(capturedNotices) = 0 THEN EmptyObject
          ELSE Field("result", capturedNotices[Len(capturedNotices)]))

\* firstNotice(): capturedNotices[0]
firstNotice ==
    Query("firstNotice", <<>>,
          IF Len(capturedNotices) = 0 THEN EmptyObject
          ELSE Field("result", capturedNotices[1]))

\* noticeCount()
noticeCount == Query("noticeCount", <<>>, Field("result", Len(capturedNotices)))

\* hasNotices()
hasNotices == Query("hasNotices", <<>>, Field("result", Len(capturedNotices) > 0))

\* isActive(): no assertTestMode()
isActive ==
    /\ call' = [op |-> "isActive", args |-> <<>>, outcome |-> "returned",
                result |-> isTestMode]
    /\ UNCHANGED <<globalConfig, configuredLogger, nodeSdk, browserSdk, testingVars, clientVars>>

\* A predicate over notices is modelled by what it tests: nothing, the message
\* for a substring, or one of the tests of the findNoticesBy functions.
\* n.tags?.includes(tag) ?? false
Satisfies(notice, predicate) ==
    CASE predicate.k = "any" -> TRUE
      [] predicate.k = "messageIncludes" -> Includes(notice.message, predicate.s)
      [] predicate.k = "class" -> notice.errorClass = predicate.s
      [] predicate.k = "tag" ->
            /\ Has(notice, "tags")
            /\ \E i \in 1..Len(notice.tags) : notice.tags[i] = predicate.s
      [] predicate.k = "runtime" -> notice.runtime = predicate.s

\* capturedNotices.filter(predicate)
FilterKeepsAll(list, predicate) == list
Filter(list, predicate) == SelectSeq(list, LAMBDA n : Satisfies(n, predicate))

\* findNotices(predicate)
findNotices(predicate) ==
    Query("findNotices", << predicate >>,
          Field("result", Filter(capturedNotices, predicate)))

\* findNoticesByClass(errorClass)
findNoticesByClass(errorClass) ==
    Query("findNoticesByClass", << errorClass >>,
          Field("result", Filter(capturedNotices, [k |-> "class", s |-> errorClass])))

\* findNoticesByTag(tag)
findNoticesByTag(tag) ==
    Query("findNoticesByTag", << tag >>,
          Field("result", Filter(capturedNotices, [k |-> "tag", s |-> tag])))

\* findNoticesByRuntime(runtime)
findNoticesByRuntime(runtime) ==
    Query("findNoticesByRuntime", << runtime >>,
          Field("result", Filter(capturedNotices, [k |-> "runtime", s |-> runtime])))

\* clearNotices()
clearNotices ==
    /\ call' = IF assertTestMode.threw
               THEN [op |-> "clearNotices", args |-> <<>>, outcome |-> "threw",
                     error |-> assertTestMode.error]
               ELSE [op |-> "clearNotices", args |-> <<>>, outcome |-> "returned"]
    /\ capturedNotices' = IF assertTestMode.threw THEN capturedNotices ELSE <<>>
    /\ UNCHANGED <<globalConfig, configuredLogger, nodeSdk, browserSdk,
                   isTestMode, originalFetch, fetch, clientVars>>

\* JSON.stringify of an array of strings
RECURSIVE JoinQuoted(_)
JoinQuoted(list) ==
    IF Len(list) = 0 THEN ""
    ELSE "\"" \o Head(list) \o "\""
           \o (IF Len(list) = 1 THEN "" ELSE "," \o JoinQuoted(Tail(list)))

StringifyStrings(list) == "[" \o JoinQuoted(list) \o "]"

\* assertNoticeCount: if (actual !== expected)
CountMismatchBelow(actual, expected) == actual < expected
CountMismatch(actual, expected) == actual # expected

\* assertNoticeCount(expected)
assertNoticeCount(expected) ==
    /\ call' =
         IF assertTestMode.threw
         THEN [op |-> "assertNoticeCount", args |-> << expected >>,
               outcome |-> "threw", error |-> assertTestMode.error]
         ELSE IF CountMismatch(Len(capturedNotices), expected)
         THEN [op |-> "assertNoticeCount", args |-> << expected >>,
               outcome |-> "threw",
               error |-> "Expected " \o NumberToString(expected)
                           \o " notice(s), but got "
                           \o NumberToString(Len(capturedNotices)) \o ". Notices: "
                           \o StringifyStrings([ i \in 1..Len(capturedNotices) |->
                                                   capturedNotices[i].errorClass ])]
         ELSE [op |-> "assertNoticeCount", args |-> << expected >>,
               outcome |-> "returned"]
    /\ UNCHANGED <<globalConfig, configuredLogger, nodeSdk, browserSdk, testingVars, clientVars>>

\* assertNoNotices()
assertNoNotices ==
    /\ call' =
         IF assertTestMode.threw
         THEN [op |-> "assertNoNotices", args |-> <<>>, outcome |-> "threw",
               error |-> assertTestMode.error]
         ELSE IF Len(capturedNotices) > 0
         THEN [op |-> "assertNoNotices", args |-> <<>>, outcome |-> "threw",
               error |-> "Expected no notices, but got "
                           \o NumberToString(Len(capturedNotices)) \o ". Notices: "
                           \o StringifyStrings([ i \in 1..Len(capturedNotices) |->
                                                   capturedNotices[i].errorClass
                                                     \o ": "
                                                     \o capturedNotices[i].message ])]
         ELSE [op |-> "assertNoNotices", args |-> <<>>, outcome |-> "returned"]
    /\ UNCHANGED <<globalConfig, configuredLogger, nodeSdk, browserSdk, testingVars, clientVars>>

\* capturedNotices.push(notice)
PushFront(list, notice) == << notice >> \o list
Push(list, notice) == Append(list, notice)

\* the store after the pushes of one call of the interceptor (at most one)
PushAll(list, pushed) == IF Len(pushed) = 0 THEN list ELSE Push(list, pushed[1])

\* addNotice(notice): { backtrace: [], occurredAt: new Date(), runtime: 'server',
\* ...notice }; now is the clock's reading
addNotice(notice, now) ==
    /\ call' = IF assertTestMode.threw
               THEN [op |-> "addNotice", args |-> << notice >>, outcome |-> "threw",
                     error |-> assertTestMode.error]
               ELSE [op |-> "addNotice", args |-> << notice >>, outcome |-> "returned"]
    /\ capturedNotices' =
         IF assertTestMode.threw THEN capturedNotices
         ELSE Push(capturedNotices,
                   notice @@ [backtrace |-> <<>>, occurredAt |-> now,
                              runtime |-> "server"])
    /\ UNCHANGED <<globalConfig, configuredLogger, nodeSdk, browserSdk,
                   isTestMode, originalFetch, fetch, clientVars>>

\* The first argument of fetch is a string, a URL or a Request.
\* typeof input === 'string' ? input : input instanceof URL ? input.href : input.url
UrlOf(input) ==
    CASE input.kind = "string" -> input.string
      [] input.kind = "URL" -> input.href
      [] OTHER -> input.url

\* url.includes('/ingest/') || url.includes('checkend')
InterceptedIngestOnly(url) == Includes(url, "/ingest/")
Intercepted(url) == Includes(url, "/ingest/") \/ Includes(url, "checkend")

\* Array.prototype.toString of an array of [name, value] pairs
RECURSIVE JoinPairs(_)
JoinPairs(pairs) ==
    IF Len(pairs) = 0 THEN ""
    ELSE Head(pairs)[1] \o "," \o Head(pairs)[2]
           \o (IF Len(pairs) = 1 THEN "" ELSE "," \o JoinPairs(Tail(pairs)))

\* init.headers.toString(): a plain object gives '[object Object]', an array of
\* pairs (held in the field pairs) its elements joined by commas
HeadersToString(headers) ==
    IF Has(headers, "pairs") THEN JoinPairs(headers.pairs) ELSE "[object Object]"

\* the runtime the interceptor gives a notice; window says whether typeof window
\* is not 'undefined'
RuntimeOf(url, options, window) ==
    IF window THEN "client"
    ELSE IF \/ Includes(url, "edge")
            \/ Has(options, "headers")
                 /\ Includes(HeadersToString(options.headers), "edge")
         THEN "edge"
         ELSE "server"

\* The body of a request is a text: the JSON text of a value (field json), held
\* as a string or as bytes, or a text that is not JSON (field text).
JSONStringify(value) == [json |-> value]

\* if (body): the empty string is falsy
BodyGiven(options) ==
    Has(options, "body") /\ options.body # [text |-> ""]

\* JSON.parse(typeof body === 'string' ? body : new TextDecoder().decode(body))
JSONParse(body) ==
    IF Has(body, "json") THEN [threw |-> FALSE, value |-> body.json]
    ELSE [threw |-> TRUE]

\* a || b for strings: the empty string and undefined are falsy
Truthy(obj, f) == Has(obj, f) /\ obj[f] # ""

\* payload.error_class || payload.errorClass || 'Error'
ErrorClassVerbatim(payload) ==
    IF Has(payload, "error_class") THEN payload.error_class
    ELSE IF Has(payload, "errorClass") THEN payload.errorClass
    ELSE "Error"
ErrorClassOf(payload) ==
    IF Truthy(payload, "error_class") THEN payload.error_class
    ELSE IF Truthy(payload, "errorClass") THEN payload.errorClass
    ELSE "Error"

\* the notice the interceptor builds from a payload
CapturedNotice(payload, runtime, now) ==
    [errorClass |-> ErrorClassOf(payload),
     message |-> IF Truthy(payload, "message") THEN payload.message ELSE "",
     backtrace |-> IF Has(payload, "backtrace") THEN payload.backtrace ELSE <<>>,
     occurredAt |-> now, runtime |-> runtime]
      @@ Pick(payload, {"context", "request", "user", "tags", "fingerprint"})

\* the try block of the interceptor: the notices it pushes (a body that is
\* absent, empty, not JSON, or the JSON of null pushes none)
Captured(url, options, env) ==
    IF ~BodyGiven(options) THEN <<>>
    ELSE IF JSONParse(options.body).threw THEN <<>>
    ELSE IF JSONParse(options.body).value = Null THEN <<>>
    ELSE << CapturedNotice(JSONParse(options.body).value,
                           RuntimeOf(url, options, env.window), env.now) >>

\* new Response(JSON.stringify({ id: ... }), { status: 201, ... })
CreatedResponse(id) ==
    [kind |-> "response", ok |-> TRUE, status |-> "201", decodes |-> TRUE,
     data |-> [id |-> id]]

\* originalFetch(input, init): the call handed on
ForwardedWithoutOptions(to, input, options) ==
    [to |-> to, input |-> input, options |-> EmptyObject]
Forwarded(to, input, options) == [to |-> to, input |-> input, options |-> options]

\* What a transport answers: the network's answer, or, for an interceptor that
\* forwards to itself (the original it reads is an interceptor), the failure of
\* a call chain without end.
Answer(to, env) ==
    IF to = MockFetch
    THEN [kind |-> "rejected", error |-> "Maximum call stack size exceeded"]
    ELSE env.transport

\* The function createMockFetch() returns, called with (input, options): the
\* notices it pushes, the calls it forwards and what its promise settles to. env
\* holds what the call reads from its surroundings: whether window is defined,
\* the clock, the fresh id and what the network answers.
mockFetch(input, options, env) ==
    LET url == UrlOf(input)
    IN IF Intercepted(url)
       THEN [captured |-> Captured(url, options, env), forwarded |-> <<>>,
             settled |-> CreatedResponse(env.id)]
       ELSE IF Available(originalFetch)
       THEN [captured |-> <<>>,
             forwarded |-> << Forwarded(originalFetch, input, options) >>,
             settled |-> Answer(originalFetch, env)]
       ELSE [captured |-> <<>>, forwarded |-> <<>>,
             settled |-> [kind |-> "rejected",
                          error |-> "Original fetch not available"]]

\* globalThis.fetch(input, options) as the installed transport answers it
CallFetch(input, options, env) ==
    IF fetch = MockFetch THEN mockFetch(input, options, env)
    ELSE IF fetch = NoFetch
    THEN [captured |-> <<>>, forwarded |-> <<>>,
          settled |-> [kind |-> "rejected", error |-> "fetch is not defined"]]
    ELSE [captured |-> <<>>, forwarded |-> <<>>, settled |-> env.transport]

\* a call of globalThis.fetch by the host
Fetch(input, options, env) ==
    LET met == CallFetch(input, options, env)
    IN /\ call' = [op |-> "fetch", input |-> input, options |-> options,
                   env |-> env, via |-> fetch, captured |-> met.captured,
                   forwarded |-> met.forwarded, settled |-> met.settled]
       /\ capturedNotices' = PushAll(capturedNotices, met.captured)
       /\ UNCHANGED <<globalConfig, configuredLogger, nodeSdk, browserSdk,
                      isTestMode, originalFetch, fetch, clientVars>>

\* globalThis.fetch = f, by the host
AssignFetch(f) ==
    /\ fetch' = f
    /\ call' = [op |-> "assignFetch", outcome |-> "returned"]
    /\ UNCHANGED <<globalConfig, configuredLogger, nodeSdk, browserSdk,
                   capturedNotices, isTestMode, originalFetch, clientVars>>

-----------------------------------------------------------------------------
(* Edge runtime *)

Notifier ==
    [name |-> "@checkend/nextjs", version |-> "0.1.0",
     url |-> "https://github.com/Checkend/checkend-nextjs"]

DefaultEndpoint == "https://app.checkend.io"

\* A line of error.stack after the header is modelled by what the pattern
\* /at\s+(?:(.+?)\s+\()?(.+?):(\d+)(?::\d+)?\)?/ captures from it: nothing
\* (matches = FALSE), or file and digits with an optional method.
parseStackTrace(error) ==
    IF ~Has(error, "stack") THEN <<>>
    ELSE LET lines == SubSeq(error.stack, 2, Len(error.stack))
             matching == SelectSeq(lines, LAMBDA line : line.matches)
         IN [ i \in 1..Len(matching) |->
                [method |-> IF Has(matching[i], "method")
                            THEN matching[i].method ELSE "<anonymous>",
                 file |-> matching[i].file,
                 number |-> parseInt(matching[i].digits)] ]

\* filterKeys.map((k) => k.toLowerCase())
SensitiveKeyOfVerbatim(k) == k
SensitiveKeyOf(k) == toLowerCase(k)

\* filterHeaders(headers, filterKeys)
filterHeaders(headers, filterKeys) ==
    LET sensitiveKeys ==
            {"authorization", "cookie", "x-api-key", "x-auth-token"}
              \cup { SensitiveKeyOf(filterKeys[i]) : i \in 1..Len(filterKeys) }
    IN [ key \in DOMAIN headers |->
           IF toLowerCase(key) \in sensitiveKeys THEN FILTERED ELSE headers[key] ]

\* the request descriptor of a notice
NoticeRequest(config, request) ==
    [url |-> request.url.pathname \o request.url.search,
     method |-> request.method,
     headers |-> filterHeaders(request.headers,
                    IF Has(config, "filterKeys") THEN config.filterKeys ELSE <<>>)]
      @@ (IF Has(request.headers, "user-agent") /\ request.headers["user-agent"] # ""
          THEN Field("user_agent", request.headers["user-agent"])
          ELSE EmptyObject)

\* const notice: EdgeNotice = {...}; if (options?.request) notice.request = {...}
EdgeNotice(config, error, options) ==
    [error_class |-> error.name, message |-> error.message,
     backtrace |-> parseStackTrace(error), notifier |-> Notifier]
      @@ Pick(options, {"context", "user", "tags", "fingerprint"})
      @@ (IF Has(options, "request")
          THEN Field("request", NoticeRequest(config, options.request))
          ELSE EmptyObject)

\* the CheckendEvent notify hands to applyBeforeSend (the backquotes around the
\* method, which a TLA+ string cannot hold, are written as apostrophes)
EdgeEvent(notice) ==
    [errorClass |-> notice.error_class, message |-> notice.message,
     backtrace |-> [ i \in 1..Len(notice.backtrace) |->
                       notice.backtrace[i].file \o ":"
                         \o NumberToString(notice.backtrace[i].number)
                         \o ":in '" \o notice.backtrace[i].method \o "'" ]]
      @@ Pick(notice, {"context", "user", "tags", "fingerprint"})

\* fetch(endpoint + '/ingest/v1/errors', {...}): JSON.stringify drops the fields
\* that are undefined, which the notice record does not hold
EdgeFetch(config, notice) ==
    [url |-> (IF Has(config, "endpoint") /\ config.endpoint # ""
              THEN config.endpoint ELSE DefaultEndpoint) \o "/ingest/v1/errors",
     method |-> "POST",
     headers |-> [ h \in {"Content-Type", "Checkend-Ingestion-Key"} |->
                     IF h = "Content-Type" THEN "application/json" ELSE config.apiKey ],
     body |-> notice]

\* if (!config.enableEdge) return
EdgeDisabledIgnored(config) == FALSE
EdgeDisabled(config) == ~config.enableEdge

\* notify: the beforeSend step (applyBeforeSend runs only when beforeSend is set)
EdgeBeforeSend(config, logger, notice) ==
    IF Has(config, "beforeSend")
    THEN applyBeforeSend(config, logger, EdgeEvent(notice))
    ELSE [result |-> EdgeEvent(notice), invoked |-> <<>>, logged |-> <<>>]

\* notifySync has no beforeSend step
EdgeSyncBeforeSend(config, logger, notice) ==
    [result |-> EdgeEvent(notice), invoked |-> <<>>, logged |-> <<>>]

NoEdgeEffects == [fetched |-> <<>>, invoked |-> <<>>, logged |-> <<>>]

\* what notify does up to and including the fetch call: the transport calls made,
\* the callbacks invoked and the logger calls
EdgeNotifySends(config, logger, error, options) ==
    IF config = Null THEN NoEdgeEffects
    ELSE IF shouldIgnoreException(config, error) THEN NoEdgeEffects
    ELSE IF EdgeDisabled(config) THEN NoEdgeEffects
    ELSE LET notice == EdgeNotice(config, error, options)
             chain == EdgeBeforeSend(config, logger, notice)
         IN [fetched |-> IF chain.result = Null THEN <<>>
                         ELSE << EdgeFetch(config, notice) >>,
             invoked |-> chain.invoked, logged |-> chain.logged]

\* what notifySync does up to and including the fetch call
EdgeNotifySyncSends(config, logger, error, options) ==
    IF config = Null THEN NoEdgeEffects
    ELSE IF shouldIgnoreException(config, error) THEN NoEdgeEffects
    ELSE IF EdgeDisabled(config) THEN NoEdgeEffects
    ELSE LET notice == EdgeNotice(config, error, options)
             chain == EdgeSyncBeforeSend(config, logger, notice)
         IN [fetched |-> IF chain.result = Null THEN <<>>
                         ELSE << EdgeFetch(config, notice) >>,
             invoked |-> chain.invoked, logged |-> chain.logged]

\* A transport outcome: the fetch promise rejects, or resolves to a response whose
\* json() rejects (decodes = FALSE) or resolves to data.
\* catch (e) { ... }: the failure of fetch (or of response.json()) is swallowed
CatchRethrows(failure) == [outcome |-> "rejected", error |-> failure]
Catch(failure) == [outcome |-> "resolved"]

\* notify after the fetch call
EdgeNotifySettle(transport) ==
    IF transport.kind = "rejected" THEN Catch("fetch failed")
    ELSE [outcome |-> "resolved"]

\* data.id || 'unknown'
IdOf(data) == IF Has(data, "id") /\ data.id # "" THEN data.id ELSE "unknown"

\* notifySync after the fetch call: the value its promise settles to
EdgeNotifySyncSettle(transport) ==
    IF transport.kind = "rejected"
    THEN Catch("fetch failed") @@ [result |-> Null]
    ELSE IF transport.ok
         THEN IF ~transport.decodes
              THEN Catch("json failed") @@ [result |-> Null]
              ELSE IF transport.data = Null
                   THEN Catch("TypeError") @@ [result |-> Null]
                   ELSE [outcome |-> "resolved", result |-> [id |-> IdOf(transport.data)]]
         ELSE [outcome |-> "resolved", result |-> Null]

\* the call of fetch notify makes for a request it has built
EdgeCallFetch(fetched, env) ==
    CallFetch([kind |-> "string", string |-> fetched.url],
              [method |-> fetched.method, headers |-> fetched.headers,
               body |-> JSONStringify(fetched.body)],
              env)

\* edge notify(error, options); env.transport is what the fetch call, if it
\* reaches the network, meets
EdgeNotify(error, options, env) ==
    LET sends == EdgeNotifySends(globalConfig, configuredLogger, error, options)
    IN IF Len(sends.fetched) = 0
       THEN /\ call' = [op |-> "edge.notify", error |-> error, options |-> options,
                        outcome |-> "resolved"] @@ sends
            /\ UNCHANGED <<globalConfig, configuredLogger, nodeSdk, browserSdk, testingVars, clientVars>>
       ELSE LET met == EdgeCallFetch(sends.fetched[1], env)
            IN /\ call' = [op |-> "edge.notify", error |-> error, options |-> options,
                           transport |-> met.settled, captured |-> met.captured,
                           window |-> env.window]
                            @@ EdgeNotifySettle(met.settled) @@ sends
               /\ capturedNotices' = PushAll(capturedNotices, met.captured)
               /\ UNCHANGED <<globalConfig, configuredLogger, nodeSdk, browserSdk,
                              isTestMode, originalFetch, fetch, clientVars>>

\* edge notifySync(error, options)
EdgeNotifySync(error, options, env) ==
    LET sends == EdgeNotifySyncSends(globalConfig, configuredLogger, error, options)
    IN IF Len(sends.fetched) = 0
       THEN /\ call' = [op |-> "edge.notifySync", error |-> error, options |-> options,
                        outcome |-> "resolved", result |-> Null] @@ sends
            /\ UNCHANGED <<globalConfig, configuredLogger, nodeSdk, browserSdk, testingVars, clientVars>>
       ELSE LET met == EdgeCallFetch(sends.fetched[1], env)
            IN /\ call' = [op |-> "edge.notifySync", error |-> error,
                           options |-> options, transport |-> met.settled,
                           captured |-> met.captured, window |-> env.window]
                            @@ EdgeNotifySyncSettle(met.settled) @@ sends
               /\ capturedNotices' = PushAll(capturedNotices, met.captured)
               /\ UNCHANGED <<globalConfig, configuredLogger, nodeSdk, browserSdk,
                              isTestMode, originalFetch, fetch, clientVars>>

-----------------------------------------------------------------------------
(* Server and client runtimes: delegation to the downstream SDKs *)

\* The downstream SDK is modelled by how it behaves in one call: whether loading
\* the module succeeds (load), whether its notify throws (notify) and what its
\* notifySync settles to (sync: a result with an id, a result without one, null,
\* or a rejection).

\* getNodeSdk() / getBrowserSdk(): the module is loaded once and then reused
SdkAvailable(loaded, sdk) == loaded \/ sdk.load = "ok"

\* result && 'id' in result ? { id: String(result.id) } : null
SyncResult(sdk) == IF sdk.sync = "id" THEN [id |-> "n-1"] ELSE Null

\* server notify(error, options)
ServerNotify(error, options, sdk) ==
    IF globalConfig = Null
    THEN /\ call' = [op |-> "server.notify", error |-> error, outcome |-> "threw",
                     thrown |-> "Checkend not initialized", delegated |-> <<>>]
         /\ UNCHANGED <<globalConfig, configuredLogger, nodeSdk, browserSdk, testingVars, clientVars>>
    ELSE IF shouldIgnoreException(globalConfig, error)
    THEN /\ call' = [op |-> "server.notify", error |-> error, outcome |-> "returned",
                     delegated |-> <<>>]
         /\ UNCHANGED <<globalConfig, configuredLogger, nodeSdk, browserSdk, testingVars, clientVars>>
    ELSE /\ nodeSdk' = SdkAvailable(nodeSdk, sdk)
         /\ call' = [op |-> "server.notify", error |-> error, outcome |-> "returned",
                     sdk |-> sdk,
                     delegated |-> IF SdkAvailable(nodeSdk, sdk)
                                   THEN << [fn |-> "notify", error |-> error,
                                            options |-> options] >>
                                   ELSE <<>>]
         /\ UNCHANGED <<globalConfig, configuredLogger, browserSdk, testingVars, clientVars>>

\* server notifySync(error, options)
ServerNotifySync(error, options, sdk) ==
    IF globalConfig = Null
    THEN /\ call' = [op |-> "server.notifySync", error |-> error, outcome |-> "rejected",
                     thrown |-> "Checkend not initialized", delegated |-> <<>>]
         /\ UNCHANGED <<globalConfig, configuredLogger, nodeSdk, browserSdk, testingVars, clientVars>>
    ELSE IF shouldIgnoreException(globalConfig, error)
    THEN /\ call' = [op |-> "server.notifySync", error |-> error, outcome |-> "resolved",
                     result |-> Null, delegated |-> <<>>]
         /\ UNCHANGED <<globalConfig, configuredLogger, nodeSdk, browserSdk, testingVars, clientVars>>
    ELSE /\ nodeSdk' = SdkAvailable(nodeSdk, sdk)
         /\ call' = [op |-> "server.notifySync", error |-> error, outcome |-> "resolved",
                     sdk |-> sdk,
                     result |-> IF SdkAvailable(nodeSdk, sdk) THEN SyncResult(sdk)
                                ELSE Null,
                     delegated |-> IF SdkAvailable(nodeSdk, sdk)
                                   THEN << [fn |-> "notifySync", error |-> error,
                                            options |-> options] >>
                                   ELSE <<>>]
         /\ UNCHANGED <<globalConfig, configuredLogger, browserSdk, testingVars, clientVars>>

\* client notify(error, options); window tells whether typeof window is defined
ClientNotify(error, options, sdk, window) ==
    IF ~window
    THEN /\ call' = [op |-> "client.notify", error |-> error, outcome |-> "resolved",
                     delegated |-> <<>>]
         /\ UNCHANGED <<globalConfig, configuredLogger, nodeSdk, browserSdk, testingVars, clientVars>>
    ELSE IF globalConfig = Null
    THEN /\ call' = [op |-> "client.notify", error |-> error, outcome |-> "rejected",
                     thrown |-> "Checkend not initialized", delegated |-> <<>>]
         /\ UNCHANGED <<globalConfig, configuredLogger, nodeSdk, browserSdk, testingVars, clientVars>>
    ELSE IF shouldIgnoreException(globalConfig, error)
    THEN /\ call' = [op |-> "client.notify", error |-> error, outcome |-> "resolved",
                     delegated |-> <<>>]
         /\ UNCHANGED <<globalConfig, configuredLogger, nodeSdk, browserSdk, testingVars, clientVars>>
    ELSE /\ browserSdk' = SdkAvailable(browserSdk, sdk)
         /\ call' = [op |-> "client.notify", error |-> error, outcome |-> "resolved",
                     sdk |-> sdk,
                     delegated |-> IF SdkAvailable(browserSdk, sdk)
                                   THEN << [fn |-> "notify", error |-> error,
                                            options |-> options] >>
                                   ELSE <<>>]
         /\ UNCHANGED <<globalConfig, configuredLogger, nodeSdk, testingVars, clientVars>>

\* client notifySync(error, options)
ClientNotifySync(error, options, sdk, window) ==
    IF ~window
    THEN /\ call' = [op |-> "client.notifySync", error |-> error, outcome |-> "resolved",
                     result |-> Null, delegated |-> <<>>]
         /\ UNCHANGED <<globalConfig, configuredLogger, nodeSdk, browserSdk, testingVars, clientVars>>
    ELSE IF globalConfig = Null
    THEN /\ call' = [op |-> "client.notifySync", error |-> error, outcome |-> "rejected",
                     thrown |-> "Checkend not initialized", delegated |-> <<>>]
         /\ UNCHANGED <<globalConfig, configuredLogger, nodeSdk, browserSdk, testingVars, clientVars>>
    ELSE IF shouldIgnoreException(globalConfig, error)
    THEN /\ call' = [op |-> "client.notifySync", error |-> error, outcome |-> "resolved",
                     result |-> Null, delegated |-> <<>>]
         /\ UNCHANGED <<globalConfig, configuredLogger, nodeSdk, browserSdk, testingVars, clientVars>>
    ELSE /\ browserSdk' = SdkAvailable(browserSdk, sdk)
         /\ call' = [op |-> "client.notifySync", error |-> error, outcome |-> "resolved",
                     sdk |-> sdk,
                     result |-> IF SdkAvailable(browserSdk, sdk) THEN SyncResult(sdk)
                                ELSE Null,
                     delegated |-> IF SdkAvailable(browserSdk, sdk)
                                   THEN << [fn |-> "notifySync", error |-> error,
                                            options |-> options] >>
                                   ELSE <<>>]
         /\ UNCHANGED <<globalConfig, configuredLogger, nodeSdk, testingVars, clientVars>>

-----------------------------------------------------------------------------
(* Inputs of the callback-chain specification *)

ApiKey == "test-key"

\* beforeSend as a single function or as an array of at most n functions
BeforeSendValues(kinds, n) ==
    { [array |-> FALSE, fn |-> f] : f \in kinds }
      \cup { [array |-> TRUE, fns |-> fs] : fs \in SeqsUpTo(kinds, n) }

ChainOptions ==
    { Field("apiKey", ApiKey) }
      \cup { Field("apiKey", ApiKey) @@ Field("beforeSend", b) :
                b \in BeforeSendValues(CallbackKinds, MaxCallbacks) }
      \cup { EmptyObject, Field("apiKey", "") }

ChainEvents ==
    { [errorClass |-> "Error", message |-> "msg", backtrace |-> <<>>],
      [errorClass |-> "TypeError", message |-> "", backtrace |-> <<>>,
       tags |-> << "t" >>] }

InitChain == Idle /\ \E options \in ChainOptions : init(options)

ApplyChain == Idle /\ \E event \in ChainEvents : ApplyBeforeSend(event)

Init ==
    /\ globalConfig = Null
    /\ configuredLogger = Null
    /\ nodeSdk = FALSE
    /\ browserSdk = FALSE
    /\ capturedNotices = <<>>
    /\ isTestMode = FALSE
    /\ originalFetch = Null
    /\ fetch = NativeFetch
    /\ initialized = FALSE
    /\ pending = <<>>
    /\ configureCalls = <<>>
    /\ call = [op |-> "idle"]

Reset == Idle /\ reset

NextChain == InitChain \/ Reset \/ ApplyChain \/ Return

SpecChain == Init /\ [][NextChain]_vars

-----------------------------------------------------------------------------
(* Inputs of the edge specification *)

EdgeCallbackKinds ==
    { [k |-> "append", s |-> "1"], [k |-> "mark"], [k |-> "null"], [k |-> "throw"] }

\* ignoredExceptions: ['TypeError', /^Error: ECONNRE/]
IgnoreRules ==
    << [regex |-> FALSE, s |-> "TypeError"],
       [regex |-> TRUE, anchored |-> TRUE, source |-> "Error: ECONNRE"] >>

\* an optional field of an options object: left out, or one of the values
Optional(f, values) == { EmptyObject } \cup { Field(f, v) : v \in values }

\* configurations that vary what gates the send
EdgeGateOptions ==
    { Field("apiKey", ApiKey) @@ bs @@ ee @@ ie :
        bs \in Optional("beforeSend", BeforeSendValues(EdgeCallbackKinds, MaxEdgeCallbacks)),
        ee \in Optional("enableEdge", {FALSE}),
        ie \in Optional("ignoredExceptions", {IgnoreRules}) }

\* configurations that vary what is filtered and where the notice goes
EdgeFilterOptions ==
    { [apiKey |-> ApiKey, enableEdge |-> TRUE, ignoredExceptions |-> <<>>]
        @@ fk @@ df @@ ep @@ lg :
        fk \in Optional("filterKeys", { <<"X-Custom">>, <<"traceId", "User-Agent">> }),
        df \in Optional("useDefaultFilterKeys", {FALSE}),
        ep \in Optional("endpoint", {"https://custom.checkend.io"}),
        lg \in { EmptyObject, [debug |-> TRUE, logger |-> "custom"] } }

EdgeOptions == EdgeGateOptions \cup EdgeFilterOptions \cup { EmptyObject }

EdgeErrors ==
    { [name |-> "Error", message |-> "Test error",
       stack |-> << [matches |-> FALSE],
                    [matches |-> TRUE, method |-> "handler", file |-> "/app/route.js",
                     digits |-> "12"],
                    [matches |-> FALSE],
                    [matches |-> TRUE, file |-> "/app/server.js", digits |-> "305"] >>],
      [name |-> "TypeError", message |-> "bad"],
      [name |-> "Error", message |-> "ECONNRESET"] }

EdgeRequests ==
    { [url |-> [pathname |-> "/api/users", search |-> "?page=1"], method |-> "POST",
       headers |-> [ h \in {"authorization", "cookie", "content-type", "user-agent"} |->
                       CASE h = "authorization" -> "Bearer secret-token"
                         [] h = "cookie" -> "session=abc123"
                         [] h = "content-type" -> "application/json"
                         [] h = "user-agent" -> "Test/1.0" ]],
      [url |-> [pathname |-> "/api", search |-> ""], method |-> "GET",
       headers |-> [ h \in {"x-api-key", "x-custom", "traceid", "accept"} |->
                       CASE h = "x-api-key" -> "key-123"
                         [] h = "x-custom" -> "custom-value"
                         [] h = "traceid" -> "trace-9"
                         [] h = "accept" -> "*/*" ]] }

EdgeNotifyOptions ==
    { EmptyObject,
      [context |-> [username |-> "john", password |-> "secret123"],
       tags |-> << "edge" >>, fingerprint |-> "fp-1", user |-> [id |-> "u1"]] }
      \cup { Field("request", r) : r \in EdgeRequests }
      \cup { [context |-> [page |-> "home", apiToken |-> "tok-1"], request |-> r] :
                r \in EdgeRequests }

Transports ==
    { [kind |-> "rejected"],
      [kind |-> "response", ok |-> FALSE, status |-> "500"],
      [kind |-> "response", ok |-> TRUE, status |-> "201", decodes |-> TRUE,
       data |-> [id |-> "test-id"]],
      [kind |-> "response", ok |-> TRUE, status |-> "201", decodes |-> TRUE,
       data |-> [message |-> "created"]],
      [kind |-> "response", ok |-> TRUE, status |-> "201", decodes |-> TRUE,
       data |-> [id |-> ""]],
      [kind |-> "response", ok |-> TRUE, status |-> "200", decodes |-> TRUE,
       data |-> Null],
      [kind |-> "response", ok |-> TRUE, status |-> "200", decodes |-> FALSE] }

InitEdge == Idle /\ \E options \in EdgeOptions : init(options)

\* what a call reads from its surroundings: an edge runtime has no window
EdgeEnvs ==
    { [window |-> FALSE, now |-> "now", id |-> "test-1", transport |-> transport] :
        transport \in Transports }

NotifyEdge ==
    Idle /\ \E error \in EdgeErrors, options \in EdgeNotifyOptions, env \in EdgeEnvs :
        EdgeNotify(error, options, env)

NotifySyncEdge ==
    Idle /\ \E error \in EdgeErrors, options \in EdgeNotifyOptions, env \in EdgeEnvs :
        EdgeNotifySync(error, options, env)

NextEdge == InitEdge \/ Reset \/ NotifyEdge \/ NotifySyncEdge \/ Return

SpecEdge == Init /\ [][NextEdge]_vars

-----------------------------------------------------------------------------
(* Inputs of the server / client specification *)

RuntimeOptions ==
    { Field("apiKey", ApiKey) @@ ie @@ bs @@ en :
        ie \in Optional("ignoredExceptions", {IgnoreRules}),
        bs \in Optional("beforeSend", { [array |-> FALSE, fn |-> [k |-> "null"]] }),
        en \in { EmptyObject, [enableServer |-> FALSE, enableClient |-> FALSE] } }
      \cup { EmptyObject }

RuntimeNotifyOptions ==
    { EmptyObject, [context |-> [page |-> "home"], tags |-> << "srv" >>] }

SdkBehaviours ==
    [load : {"ok", "throws"}, notify : {"ok", "throws"},
     sync : {"id", "noid", "null", "rejects"}]

InitRuntime == Idle /\ \E options \in RuntimeOptions : init(options)

NotifyServer ==
    Idle /\ \E error \in EdgeErrors, options \in RuntimeNotifyOptions, sdk \in SdkBehaviours :
        ServerNotify(error, options, sdk)

NotifySyncServer ==
    Idle /\ \E error \in EdgeErrors, options \in RuntimeNotifyOptions, sdk \in SdkBehaviours :
        ServerNotifySync(error, options, sdk)

NotifyClient ==
    Idle /\ \E error \in EdgeErrors, options \in RuntimeNotifyOptions, sdk \in SdkBehaviours,
               window \in BOOLEAN :
        ClientNotify(error, options, sdk, window)

NotifySyncClient ==
    Idle /\ \E error \in EdgeErrors, options \in RuntimeNotifyOptions, sdk \in SdkBehaviours,
               window \in BOOLEAN :
        ClientNotifySync(error, options, sdk, window)

NextRuntime ==
    \/ InitRuntime \/ Reset \/ Return
    \/ NotifyServer \/ NotifySyncServer \/ NotifyClient \/ NotifySyncClient

SpecRuntime == Init /\ [][NextRuntime]_vars

-----------------------------------------------------------------------------
(* Inputs of the configuration-store specification *)

\* a value other than the default for each option that has a default
ConfigOverrides ==
    [enableClient |-> FALSE, enableServer |-> FALSE, enableEdge |-> FALSE,
     debug |-> TRUE, useDefaultFilterKeys |-> FALSE,
     timeout |-> 5000, connectTimeout |-> 2000, maxQueueSize |-> 10,
     shutdownTimeout |-> 100]

\* credentials shorter than, as long as and longer than the eight characters
\* that init echoes
ApiKeys == { "", "key", ApiKey, "sk_live_0123456789" }

\* options that override none, one or all of the defaults, with or without a
\* credential, a logger and fields that have no default
ConfigOptions ==
    { key @@ overrides @@ extra :
        key \in Optional("apiKey", ApiKeys),
        overrides \in { Pick(ConfigOverrides, fields) :
                          fields \in { {}, DOMAIN ConfigOverrides }
                                       \cup { {f} : f \in DOMAIN ConfigOverrides } },
        extra \in { EmptyObject,
                    [appName |-> "my-app", revision |-> "abc123", logger |-> "custom"] } }

InitConfig == Idle /\ \E options \in ConfigOptions : init(options)

GetConfigCall == Idle /\ GetConfig

IsInitializedCall == Idle /\ IsInitialized

NextConfig == InitConfig \/ Reset \/ GetConfigCall \/ IsInitializedCall \/ Return

SpecConfig == Init /\ [][NextConfig]_vars

-----------------------------------------------------------------------------
(* Inputs of the decision-function specification *)

StringRule(s) == [regex |-> FALSE, s |-> s]

\* ignoredRoutes: [], ['/health', '/api/internal'], [/^\/api\/v1\/internal/],
\* ['/admin', /internal/]
RouteRules ==
    { <<>>,
      << StringRule("/health"), StringRule("/api/internal") >>,
      << [regex |-> TRUE, anchored |-> TRUE, source |-> "/api/v1/internal"] >>,
      << StringRule("/admin"),
         [regex |-> TRUE, anchored |-> FALSE, source |-> "internal"] >> }

Routes ==
    { "/", "/health", "/healthz", "/x/health", "/api/internal", "/api/internal/health",
      "/api/users", "/api/v1/internal/health", "/api/v1/users" }

\* ignoredExceptions: [], ['TypeError', 'SyntaxError'], ['ECONNRESET', 'timeout'],
\* ['TypeError', /^Error: ECONNRE/]
ExceptionRules ==
    { <<>>,
      << StringRule("TypeError"), StringRule("SyntaxError") >>,
      << StringRule("ECONNRESET"), StringRule("timeout") >>,
      IgnoreRules }

DecideErrors ==
    { [name |-> "TypeError", message |-> "Invalid type"],
      [name |-> "SyntaxError", message |-> "Unexpected token"],
      [name |-> "Error", message |-> "Generic error"],
      [name |-> "Error", message |-> "ECONNRESET: Connection reset"],
      [name |-> "Error", message |-> "Request timeout after 30s"],
      [name |-> "Error", message |-> "ECONNREFUSED"],
      [name |-> "Error", message |-> "caught TypeError in handler"],
      [name |-> "MyTypeError", message |-> "Error: ECONNREFUSED"] }

\* filterKeys and useDefaultFilterKeys: a custom key listed twice and a custom
\* key that is also a built-in one, beside the defaults and without them
FilterKeyOptions ==
    { [filterKeys |-> << "customSecret", "password", "customSecret" >>],
      [filterKeys |-> << "onlyThis", "onlyThis" >>, useDefaultFilterKeys |-> FALSE],
      [filterKeys |-> << "onlyThis", "password" >>, useDefaultFilterKeys |-> FALSE],
      [useDefaultFilterKeys |-> FALSE] }

DecideOptions ==
    { Field("apiKey", ApiKey) @@ ir @@ ie @@ more :
        ir \in Optional("ignoredRoutes", RouteRules),
        ie \in Optional("ignoredExceptions", ExceptionRules),
        more \in { EmptyObject,
                   [beforeSend |-> [array |-> FALSE, fn |-> [k |-> "append", s |-> "1"]],
                    filterKeys |-> << "customSecret" >>] } \cup FilterKeyOptions }
      \cup { EmptyObject }

DecideData ==
    { JsObject([username |-> JsString("john"), password |-> JsString("secret123"),
                customSecret |-> JsNull]) }

InitDecide == Idle /\ \E options \in DecideOptions : init(options)

RouteCall == Idle /\ \E route \in Routes : ShouldIgnoreRoute(route)

ExceptionCall == Idle /\ \E error \in DecideErrors : ShouldIgnoreException(error)

FilterKeysCall == Idle /\ GetFilterKeys

SanitizeCall == Idle /\ \E data \in DecideData : Sanitize(data, EmptyObject)

NextDecide ==
    \/ InitDecide \/ Reset \/ Return
    \/ RouteCall \/ ExceptionCall \/ FilterKeysCall \/ SanitizeCall \/ ApplyChain

SpecDecide == Init /\ [][NextDecide]_vars

-----------------------------------------------------------------------------
(* Inputs of the sanitizer specification *)

\* default keys only, a custom key beside them, a custom key alone, no key at all
SanitizeOptions ==
    { Field("apiKey", ApiKey),
      [apiKey |-> ApiKey, filterKeys |-> << "username" >>],
      [apiKey |-> ApiKey, filterKeys |-> << "onlyThis" >>, useDefaultFilterKeys |-> FALSE],
      [apiKey |-> ApiKey, useDefaultFilterKeys |-> FALSE] }

\* a text longer than the 10000 characters sanitize keeps (16 * 2^10)
Doubled(str) == str \o str
LongText ==
    Doubled(Doubled(Doubled(Doubled(Doubled(Doubled(Doubled(Doubled(Doubled(Doubled(
      "0123456789abcdef"))))))))))

\* values without parts, and objects whose fields hold such values
FlatValues ==
    { JsString("s3cret"), JsString("john"), JsNull,
      JsObject([comment |-> JsString(LongText), password |-> JsString("s3cret")]),
      JsObject([username |-> JsString("john"), password |-> JsString("s3cret")]),
      JsObject([name |-> JsString("s3cret"), apiKey |-> JsString("s3cret")]),
      JsObject([userPassword |-> JsString("hunter2"), id |-> JsNumber(1)]) }

\* the flat values wrapped in at most n levels of objects and arrays
RECURSIVE NestedValues(_)
NestedValues(n) ==
    IF n = 0 THEN FlatValues
    ELSE FlatValues
           \cup { JsObject(Field("nested", v)) : v \in NestedValues(n - 1) }
           \cup { JsObject(Field("credentials", v)) : v \in NestedValues(n - 1) }
           \cup { JsArray(<< v >>) : v \in NestedValues(n - 1) }
           \cup { JsArray(<< JsString("john"), v >>) : v \in NestedValues(n - 1) }

\* sanitize takes a record: the objects among the nested values
SanitizeData == { v \in NestedValues(MaxNesting) : v.type = "object" }

SanitizeArgs == { EmptyObject } \cup { Field("maxDepth", d) : d \in 0..2 }

InitSanitize == Idle /\ \E options \in SanitizeOptions : init(options)

SanitizeNested ==
    Idle /\ \E data \in SanitizeData, args \in SanitizeArgs : Sanitize(data, args)

NextSanitize == InitSanitize \/ Reset \/ SanitizeNested \/ FilterKeysCall \/ Return

SpecSanitize == Init /\ [][NextSanitize]_vars

-----------------------------------------------------------------------------
(* Inputs of the capture-harness specification *)

\* a configuration the host made live before it set the harness up
PriorOptions ==
    { [apiKey |-> ApiKey, environment |-> "production", debug |-> TRUE,
       filterKeys |-> << "customSecret" >>] }

\* setup(), setup({ apiKey: 'custom-key', environment: 'staging' }) and an
\* override that empties the credential
SetupConfigs ==
    { EmptyObject,
      [apiKey |-> "custom-key", environment |-> "staging"],
      [apiKey |-> ""] }

\* the notices the host injects
HarnessNotices ==
    { [errorClass |-> "ValidationError", message |-> "Invalid input",
       tags |-> << "validation", "user-input" >>],
      [errorClass |-> "NetworkError", message |-> "Connection failed",
       runtime |-> "edge"] }

HarnessPredicates == { [k |-> "any"], [k |-> "messageIncludes", s |-> "Invalid"] }

HarnessClasses == { "ValidationError", "TypeError" }

HarnessTags == { "validation", "edge" }

HarnessRuntimes == { "server", "edge" }

\* the payload of a report
HarnessPayload ==
    [error_class |-> "TypeError", message |-> "bad", tags |-> << "edge" >>,
     fingerprint |-> "fp-1"]

IngestUrl == "https://test.checkend.io/ingest/v1/errors"

\* the calls of fetch the host makes: reports to the ingestion path with a JSON
\* body (as a string and as bytes), with a body that yields no payload and
\* without a body, a report whose headers are pairs that name the edge runtime,
\* a URL and a Request that only carry the product's name, and calls to other
\* hosts
FetchCalls ==
    { [input |-> [kind |-> "string", string |-> IngestUrl],
       options |-> [method |-> "POST", body |-> JSONStringify(HarnessPayload)]],
      [input |-> [kind |-> "string", string |-> IngestUrl],
       options |-> [method |-> "POST",
                    body |-> JSONStringify(HarnessPayload) @@ [bytes |-> TRUE],
                    headers |-> [pairs |-> << << "x-runtime", "edge" >> >>]]],
      [input |-> [kind |-> "string", string |-> IngestUrl],
       options |-> [method |-> "POST", body |-> [text |-> "not json"]]],
      [input |-> [kind |-> "string", string |-> IngestUrl],
       options |-> [method |-> "POST", body |-> [text |-> ""]]],
      [input |-> [kind |-> "string", string |-> IngestUrl],
       options |-> [method |-> "POST", body |-> JSONStringify(Null)]],
      [input |-> [kind |-> "URL", href |-> "https://docs.checkend.io/status"],
       options |-> EmptyObject],
      [input |-> [kind |-> "Request", url |-> "https://api.example.com/checkend"],
       options |-> [method |-> "POST",
                    body |-> JSONStringify([errorClass |-> "Legacy"])]],
      [input |-> [kind |-> "string", string |-> "https://api.example.com/users"],
       options |-> [method |-> "POST", body |-> JSONStringify([name |-> "john"])]],
      [input |-> [kind |-> "URL", href |-> "https://api.example.com/ingest"],
       options |-> EmptyObject] }

\* what a call reads from its surroundings: a server without window whose
\* network answers or fails
HarnessEnvs ==
    { [window |-> FALSE, now |-> "now", id |-> "test-1",
       transport |-> [kind |-> "response", ok |-> TRUE, status |-> "200",
                      decodes |-> TRUE, data |-> [users |-> "none"]]],
      [window |-> FALSE, now |-> "now", id |-> "test-2",
       transport |-> [kind |-> "rejected"]] }

\* the store has room for one more notice
Room == Len(capturedNotices) < MaxNotices

InitPrior == Idle /\ \E options \in PriorOptions : init(options)

Setup == Idle /\ \E config \in SetupConfigs : setup(config)

Teardown == Idle /\ teardown

Notices == Idle /\ notices

LastNotice == Idle /\ lastNotice

FirstNotice == Idle /\ firstNotice

NoticeCount == Idle /\ noticeCount

HasNotices == Idle /\ hasNotices

IsActive == Idle /\ isActive

FindNotices == Idle /\ \E predicate \in HarnessPredicates : findNotices(predicate)

FindNoticesByClass == Idle /\ \E errorClass \in HarnessClasses : findNoticesByClass(errorClass)

FindNoticesByTag == Idle /\ \E tag \in HarnessTags : findNoticesByTag(tag)

FindNoticesByRuntime == Idle /\ \E runtime \in HarnessRuntimes : findNoticesByRuntime(runtime)

ClearNotices == Idle /\ clearNotices

AssertNoticeCount == Idle /\ \E expected \in 0..MaxNotices : assertNoticeCount(expected)

AssertNoNotices == Idle /\ assertNoNotices

AddNotice == Idle /\ Room /\ \E notice \in HarnessNotices : addNotice(notice, "now")

HostFetches ==
    Idle /\ Room /\ \E c \in FetchCalls, env \in HarnessEnvs : Fetch(c.input, c.options, env)

\* the host replaces or removes globalThis.fetch between sessions
HostAssignsFetch ==
    Idle /\ ~isTestMode /\ \E f \in {NoFetch, NativeFetch, HostFetch} : AssignFetch(f)

NextHarness ==
    \/ InitPrior \/ Reset \/ Return
    \/ Setup \/ Teardown \/ HostAssignsFetch
    \/ Notices \/ LastNotice \/ FirstNotice \/ NoticeCount \/ HasNotices \/ IsActive
    \/ FindNotices \/ FindNoticesByClass \/ FindNoticesByTag \/ FindNoticesByRuntime
    \/ ClearNotices \/ AssertNoticeCount \/ AssertNoNotices \/ AddNotice
    \/ HostFetches

SpecHarness == Init /\ [][NextHarness]_vars

-----------------------------------------------------------------------------
(* Inputs of the capture specification: edge reports under the harness *)

\* errors whose name or message is the empty string beside an ordinary one
CaptureErrors ==
    { [name |-> "Error", message |-> "Test error"],
      [name |-> "", message |-> "no name"],
      [name |-> "RangeError", message |-> ""] }

\* tags and fingerprint present (an empty list and an empty string among
\* them) or absent
CaptureNotifyOptions ==
    { EmptyObject,
      [tags |-> << "edge", "checkout" >>, fingerprint |-> "fp-1"],
      [tags |-> <<>>, fingerprint |-> ""] }

\* an edge runtime without window and a test environment that defines one; the
\* network is not reached
CaptureEnvs ==
    { [window |-> w, now |-> "now", id |-> "test-1",
       transport |-> [kind |-> "rejected"]] : w \in BOOLEAN }

NotifyCaptured ==
    /\ Idle
    /\ Room
    /\ \E error \in CaptureErrors, options \in CaptureNotifyOptions, env \in CaptureEnvs :
          EdgeNotify(error, options, env)

NotifySyncCaptured ==
    /\ Idle
    /\ Room
    /\ \E error \in CaptureErrors, options \in CaptureNotifyOptions, env \in CaptureEnvs :
          EdgeNotifySync(error, options, env)

NextCapture ==
    \/ Setup \/ Teardown \/ Return
    \/ NotifyCaptured \/ NotifySyncCaptured
    \/ Notices \/ ClearNotices

SpecCapture == Init /\ [][NextCapture]_vars

-----------------------------------------------------------------------------
(* Client initialisation *)

InitializedBeforeInit ==
    "[Checkend] Client SDK initialized before calling init(). "
      \o "Make sure to call init() in instrumentation.ts"

\* sdk.default.configure({...}): the options the browser SDK is configured
\* with; beforeNotify holds one function when beforeSend is configured
ConfigureOptions(config) ==
    Pick(config, {"apiKey", "endpoint", "environment", "ignoredExceptions",
                  "filterKeys", "debug"})
      @@ (IF Has(config, "beforeSend") THEN [beforeNotify |-> << "applyBeforeSend" >>]
          ELSE EmptyObject)

\* if (initialized) return
AlreadyInitialized == initialized

\* initClient() up to await getBrowserSdk(): the call returns at once when the
\* client is initialised, there is no window, no configuration is live or the
\* client is disabled; otherwise it is suspended with the configuration it read
InitClient(window) ==
    LET return(how) ==
            /\ call' = [op |-> "initClient", window |-> window, outcome |-> "resolved"]
                         @@ how
            /\ UNCHANGED <<globalConfig, configuredLogger, nodeSdk, browserSdk,
                           testingVars, clientVars>>
    IN IF AlreadyInitialized THEN return([warned |-> <<>>, logged |-> <<>>])
       ELSE IF ~window THEN return([warned |-> <<>>, logged |-> <<>>])
       ELSE IF ~isInitialized
       THEN return([warned |-> << InitializedBeforeInit >>, logged |-> <<>>])
       ELSE IF ~globalConfig.enableClient
       THEN return([warned |-> <<>>,
                    logged |-> IF globalConfig.debug
                               THEN << "[Checkend] Client SDK disabled" >> ELSE <<>>])
       ELSE /\ pending' = Append(pending, [config |-> globalConfig])
            /\ call' = [op |-> "initClient", window |-> window, outcome |-> "pending"]
            /\ UNCHANGED <<globalConfig, configuredLogger, nodeSdk, browserSdk,
                           testingVars, initialized, configureCalls>>

\* the list without its i-th element
Without(list, i) == SubSeq(list, 1, i - 1) \o SubSeq(list, i + 1, Len(list))

\* initClient() from await getBrowserSdk() on: the import fails and the error
\* is logged, or the SDK is configured with the configuration read before the
\* await and the flag is set
InitClientResumes(i, sdk) ==
    LET config == pending[i].config
    IN /\ pending' = Without(pending, i)
       /\ IF SdkAvailable(browserSdk, sdk)
          THEN /\ browserSdk' = TRUE
               /\ configureCalls' = Append(configureCalls, ConfigureOptions(config))
               /\ initialized' = TRUE
               /\ call' = [op |-> "initClient resumed", outcome |-> "resolved",
                           configured |-> TRUE,
                           logged |-> IF config.debug
                                      THEN << "[Checkend] Client SDK initialized" >>
                                      ELSE <<>>]
          ELSE /\ call' = [op |-> "initClient resumed", outcome |-> "resolved",
                           configured |-> FALSE,
                           logged |-> << "[Checkend] Failed to initialize client SDK:" >>]
               /\ UNCHANGED <<browserSdk, configureCalls, initialized>>
       /\ UNCHANGED <<globalConfig, configuredLogger, nodeSdk, testingVars>>

-----------------------------------------------------------------------------
(* Integrations: runWithContext and the route, middleware and action wrappers *)

\* A function handed to a wrapper or to runWithContext is modelled by what one
\* invocation of it does: it returns a value (returns), returns a promise that
\* fulfils (resolves) or rejects (rejects), or throws before it returns
\* (throws). What is thrown is an Error, with a name and a message, or a value
\* of another kind.
CallOf(fn) ==
    CASE fn.kind = "returns" -> [outcome |-> "returned", value |-> fn.value]
      [] fn.kind = "resolves" ->
            [outcome |-> "returned", value |-> [promise |-> "fulfilled", with |-> fn.value]]
      [] fn.kind = "rejects" ->
            [outcome |-> "returned", value |-> [promise |-> "rejected", with |-> fn.thrown]]
      [] fn.kind = "throws" -> [outcome |-> "threw", thrown |-> fn.thrown]

\* an async function: what it returns fulfils its promise (a promise returned
\* is adopted), what it throws rejects it
Async(invoked) ==
    IF invoked.outcome = "threw"
    THEN [promise |-> "rejected", with |-> invoked.thrown]
    ELSE IF Has(invoked.value, "promise") THEN invoked.value
    ELSE [promise |-> "fulfilled", with |-> invoked.value]

\* the Error getConfig() throws
NotInitialized == [isError |-> TRUE, name |-> "Error", message |-> getConfig(Null).error]

FailedToRunWithContext == "[Checkend] Failed to runWithContext:"

\* The downstream runWithContext runs fn inside an AsyncLocalStorage context:
\* it calls fn and hands on what fn returns or throws (run = "runs"); a
\* downstream SDK may also throw without calling fn (run = "throws").
\* runWithContext(fn): try { return sdk.runWithContext(fn) } catch { return fn() }
runWithContext(loaded, sdk, fn) ==
    IF SdkAvailable(loaded, sdk) /\ sdk.run = "runs"
    THEN LET inside == CallOf(fn)
         IN IF inside.outcome = "threw"
            THEN [invocations |-> 2, logged |-> << FailedToRunWithContext >>,
                  result |-> CallOf(fn)]
            ELSE [invocations |-> 1, logged |-> <<>>, result |-> inside]
    ELSE [invocations |-> 1, logged |-> << FailedToRunWithContext >>,
          result |-> CallOf(fn)]

\* the exported server runWithContext(fn)
RunWithContext(fn, sdk) ==
    LET run == runWithContext(nodeSdk, sdk, fn)
    IN /\ call' = [op |-> "runWithContext", fn |-> fn, sdk |-> sdk,
                   loaded |-> nodeSdk] @@ run
       /\ nodeSdk' = SdkAvailable(nodeSdk, sdk)
       /\ UNCHANGED <<globalConfig, configuredLogger, browserSdk, testingVars, clientVars>>

\* error instanceof Error
IsError(thrown) == thrown.isError

\* server notify(error, options) as the wrappers call it: it throws when no
\* configuration is live, and hands the error to the downstream SDK unless the
\* exception is ignored or the SDK cannot be loaded
serverNotify(config, loaded, sdk, error, options) ==
    IF getConfig(config).threw
    THEN [threw |-> TRUE, thrown |-> NotInitialized, delegated |-> <<>>]
    ELSE IF shouldIgnoreException(config, error)
    THEN [threw |-> FALSE, delegated |-> <<>>]
    ELSE [threw |-> FALSE,
          delegated |-> IF SdkAvailable(loaded, sdk)
                        THEN << [fn |-> "notify", error |-> error, options |-> options] >>
                        ELSE <<>>]

\* the events of one wrapped call, in order
HandlerCalled == [ev |-> "handler"]
NotifyCalled(error, options) == [ev |-> "notify", error |-> error, options |-> options]
NotifySettled == [ev |-> "notify settled"]
Thrown(thrown) == [ev |-> "throw", thrown |-> thrown]

\* try { return await handler(...) } catch (error) { if (error instanceof Error)
\* notify(error, ...); throw error } with the server's notify: the events and
\* the promise of the async function around it
ReportedNever(config, loaded, sdk, handler, options) ==
    LET settled == Async(CallOf(handler))
    IN [trace |-> IF settled.promise = "fulfilled" THEN << HandlerCalled >>
                  ELSE << HandlerCalled, Thrown(settled.with) >>,
        promise |-> settled, delegated |-> <<>>]
Reported(config, loaded, sdk, handler, options) ==
    LET settled == Async(CallOf(handler))
    IN IF settled.promise = "fulfilled"
       THEN [trace |-> << HandlerCalled >>, promise |-> settled, delegated |-> <<>>]
       ELSE IF ~IsError(settled.with)
       THEN [trace |-> << HandlerCalled, Thrown(settled.with) >>, promise |-> settled,
             delegated |-> <<>>]
       ELSE LET notified == serverNotify(config, loaded, sdk, settled.with, options)
            IN IF notified.threw
               THEN [trace |-> << HandlerCalled, NotifyCalled(settled.with, options),
                                  Thrown(notified.thrown) >>,
                     promise |-> [promise |-> "rejected", with |-> notified.thrown],
                     delegated |-> <<>>]
               ELSE [trace |-> << HandlerCalled, NotifyCalled(settled.with, options),
                                  Thrown(settled.with) >>,
                     promise |-> settled, delegated |-> notified.delegated]

\* runWithContext(async () => {...}): the async function does not throw, it
\* returns its promise; each invocation goes through its events again
InContext(loaded, sdk, reported) ==
    LET fn == IF reported.promise.promise = "fulfilled"
              THEN [kind |-> "resolves", value |-> reported.promise.with]
              ELSE [kind |-> "rejects", thrown |-> reported.promise.with]
        run == runWithContext(loaded, sdk, fn)
    IN [trace |-> IF run.invocations = 1 THEN reported.trace
                  ELSE reported.trace \o reported.trace,
        promise |-> Async(run.result),
        delegated |-> IF run.invocations = 1 THEN reported.delegated
                      ELSE reported.delegated \o reported.delegated,
        logged |-> run.logged]

\* the context of a route report: { url, method, params, searchParams,
\* ...options?.context }; params is left out when the route has none or when
\* awaiting them fails
RouteContext(request, routeContext, options) ==
    (IF Has(options, "context") THEN options.context ELSE EmptyObject)
      @@ [url |-> request.url.pathname, method |-> request.method,
          searchParams |-> request.url.searchParams]
      @@ (IF Has(routeContext, "params") /\ routeContext.params.promise = "fulfilled"
          THEN Field("params", routeContext.params.with)
          ELSE EmptyObject)

\* the handler withCheckendRoute(handler, options) returns, called with a
\* request and a route context
withCheckendRoute(config, loaded, sdk, handler, options, request, routeContext) ==
    IF getConfig(config).threw
    THEN [trace |-> <<>>, promise |-> [promise |-> "rejected", with |-> NotInitialized],
          delegated |-> <<>>, logged |-> <<>>, loads |-> FALSE]
    ELSE IF shouldIgnoreRoute(config, request.url.pathname)
    THEN [trace |-> << HandlerCalled >>, promise |-> Async(CallOf(handler)),
          delegated |-> <<>>, logged |-> <<>>, loads |-> FALSE]
    ELSE InContext(loaded, sdk,
                   Reported(config, loaded, sdk, handler,
                            Field("context", RouteContext(request, routeContext, options))
                              @@ Pick(options, {"tags"})))
           @@ [loads |-> TRUE]

WithCheckendRoute(handler, options, request, routeContext, sdk) ==
    LET met == withCheckendRoute(globalConfig, nodeSdk, sdk, handler, options, request,
                                 routeContext)
    IN /\ call' = [op |-> "withCheckendRoute", handler |-> handler,
                   pathname |-> request.url.pathname] @@ met
       /\ nodeSdk' = IF met.loads THEN SdkAvailable(nodeSdk, sdk) ELSE nodeSdk
       /\ UNCHANGED <<globalConfig, configuredLogger, browserSdk, testingVars, clientVars>>

\* options?.name || action.name || '<anonymous>'
ActionName(action, options) ==
    IF Has(options, "name") /\ options.name # "" THEN options.name
    ELSE IF action.name # "" THEN action.name
    ELSE "<anonymous>"

\* { actionName, referer, ...options?.context }; referer is null when headers()
\* is not available or holds none
ActionContext(action, options, headers) ==
    (IF Has(options, "context") THEN options.context ELSE EmptyObject)
      @@ [actionName |-> ActionName(action, options),
          referer |-> IF headers # Null /\ Has(headers, "referer")
                      THEN [referer |-> headers.referer] ELSE Null]

\* the action withCheckendAction(action, options) returns, called with its
\* arguments; headers is what next/headers yields, null when it throws
withCheckendAction(config, loaded, sdk, action, options, headers) ==
    InContext(loaded, sdk,
              Reported(config, loaded, sdk, action,
                       Field("context", ActionContext(action, options, headers))
                         @@ Pick(options, {"tags"})))

WithCheckendAction(action, options, headers, sdk) ==
    /\ call' = [op |-> "withCheckendAction", handler |-> action]
                 @@ withCheckendAction(globalConfig, nodeSdk, sdk, action, options, headers)
    /\ nodeSdk' = SdkAvailable(nodeSdk, sdk)
    /\ UNCHANGED <<globalConfig, configuredLogger, browserSdk, testingVars, clientVars>>

\* the handler withCheckendMiddleware(handler) returns, called with a request:
\* what it does up to the edge notify it awaits
withCheckendMiddleware(config, logger, handler, request) ==
    IF getConfig(config).threw
    THEN [trace |-> <<>>, promise |-> [promise |-> "rejected", with |-> NotInitialized],
          sends |-> NoEdgeEffects]
    ELSE IF shouldIgnoreRoute(config, request.url.pathname)
    THEN [trace |-> << HandlerCalled >>, promise |-> Async(CallOf(handler)),
          sends |-> NoEdgeEffects]
    ELSE LET settled == Async(CallOf(handler))
             options == [request |-> request,
                         context |-> [middleware |-> TRUE,
                                      pathname |-> request.url.pathname]]
         IN IF settled.promise = "fulfilled"
            THEN [trace |-> << HandlerCalled >>, promise |-> settled,
                  sends |-> NoEdgeEffects]
            ELSE IF ~IsError(settled.with)
            THEN [trace |-> << HandlerCalled, Thrown(settled.with) >>,
                  promise |-> settled, sends |-> NoEdgeEffects]
            ELSE [trace |-> << HandlerCalled, NotifyCalled(settled.with, options),
                               NotifySettled, Thrown(settled.with) >>,
                  promise |-> settled,
                  sends |-> EdgeNotifySends(config, logger, settled.with, options)]

WithCheckendMiddleware(handler, request, env) ==
    LET met == withCheckendMiddleware(globalConfig, configuredLogger, handler, request)
        fetched == IF Len(met.sends.fetched) = 0
                   THEN [captured |-> <<>>]
                   ELSE EdgeCallFetch(met.sends.fetched[1], env)
    IN /\ call' = [op |-> "withCheckendMiddleware", handler |-> handler,
                   pathname |-> request.url.pathname, trace |-> met.trace,
                   promise |-> met.promise, fetched |-> met.sends.fetched,
                   logged |-> met.sends.logged]
       /\ capturedNotices' = PushAll(capturedNotices, fetched.captured)
       /\ UNCHANGED <<globalConfig, configuredLogger, nodeSdk, browserSdk,
                      isTestMode, originalFetch, fetch, clientVars>>

-----------------------------------------------------------------------------
(* Inputs of the integrations specification *)

\* no ignored route or exception, an ignored route, an ignored exception
WrapperConfigs ==
    { Field("apiKey", ApiKey),
      [apiKey |-> ApiKey, ignoredRoutes |-> << StringRule("/api/health") >>],
      [apiKey |-> ApiKey, ignoredExceptions |-> << StringRule("TypeError") >>] }

\* what handlers throw: Errors and a value that is not an Error
ThrownValues ==
    { [isError |-> TRUE, name |-> "Error", message |-> "boom"],
      [isError |-> TRUE, name |-> "TypeError", message |-> "bad"],
      [isError |-> FALSE, value |-> "a string"] }

Functions ==
    { [kind |-> "returns", name |-> "handler", value |-> [response |-> "200"]],
      [kind |-> "resolves", name |-> "", value |-> [response |-> "200"]] }
      \cup { [kind |-> k, name |-> "handler", thrown |-> t] :
               k \in {"throws", "rejects"}, t \in ThrownValues }

WrapperRequests ==
    { [url |-> [pathname |-> p, search |-> "?page=1", searchParams |-> [page |-> "1"]],
       method |-> "GET", headers |-> [accept |-> "*/*"]] :
        p \in {"/api/users", "/api/health"} }

RouteContexts ==
    { EmptyObject,
      [params |-> [promise |-> "fulfilled", with |-> [id |-> "7"]]],
      [params |-> [promise |-> "rejected", with |-> "no params"]] }

WrapOptions == { EmptyObject, [name |-> "createUser", tags |-> << "users" >>,
                               context |-> [team |-> "growth"]] }

ContextSdks == [load : {"ok", "throws"}, run : {"runs", "throws"}]

HeaderLists == { Null, EmptyObject, [referer |-> "https://example.com/"] }

WrapperEnvs ==
    { [window |-> FALSE, now |-> "now", id |-> "test-1", transport |-> [kind |-> "rejected"]] }

InitWrappers == Idle /\ \E options \in WrapperConfigs : init(options)

RunsWithContext == Idle /\ \E fn \in Functions, sdk \in ContextSdks : RunWithContext(fn, sdk)

RouteCalled ==
    Idle /\ \E handler \in Functions, options \in WrapOptions, request \in WrapperRequests,
               routeContext \in RouteContexts, sdk \in ContextSdks :
        WithCheckendRoute(handler, options, request, routeContext, sdk)

ActionCalled ==
    Idle /\ \E action \in Functions, options \in WrapOptions, headers \in HeaderLists,
               sdk \in ContextSdks :
        WithCheckendAction(action, options, headers, sdk)

MiddlewareCalled ==
    Idle /\ \E handler \in Functions, request \in WrapperRequests, env \in WrapperEnvs :
        WithCheckendMiddleware(handler, request, env)

NextWrappers ==
    \/ InitWrappers \/ Reset \/ Return
    \/ RunsWithContext \/ RouteCalled \/ ActionCalled \/ MiddlewareCalled

SpecWrappers == Init /\ [][NextWrappers]_vars

-----------------------------------------------------------------------------
(* Inputs of the client initialisation specification *)

ClientOptions ==
    { Field("apiKey", ApiKey),
      [apiKey |-> ApiKey, debug |-> TRUE,
       beforeSend |-> [array |-> FALSE, fn |-> [k |-> "null"]]],
      [apiKey |-> ApiKey, enableClient |-> FALSE, debug |-> TRUE] }

BrowserSdks == [load : {"ok", "throws"}]

InitForClient == Idle /\ \E options \in ClientOptions : init(options)

\* the provider's effect, or the host, calls initClient(); the effect runs again
\* when the provider's props change, whether or not an earlier call has settled
ClientInitCalled ==
    Idle /\ Len(pending) < MaxPending /\ \E window \in BOOLEAN : InitClient(window)

ClientInitResumes ==
    Idle /\ \E i \in 1..Len(pending), sdk \in BrowserSdks : InitClientResumes(i, sdk)

NextClientInit ==
    \/ InitForClient \/ Reset \/ Return
    \/ ClientInitCalled \/ ClientInitResumes

SpecClientInit == Init /\ [][NextClientInit]_vars

Next ==
    \/ NextCapture
    \/ NextChain \/ NextEdge \/ NextRuntime \/ NextConfig \/ NextDecide \/ NextSanitize
    \/ NextHarness \/ NextWrappers \/ NextClientInit

Spec == Init /\ [][Next]_vars

-----------------------------------------------------------------------------
(* Claims about the callback chain (SpecChain) *)

\* the last call was an applyBeforeSend that ran the configured callbacks
ChainRan ==
    /\ call.op = "applyBeforeSend"
    /\ call.outcome = "returned"
    /\ Has(globalConfig, "beforeSend")

ReturnedNull(inv) == ~inv.ret.threw /\ inv.ret.value = Null

\* C1: when some callback returns null, applyBeforeSend returns null and no
\* callback after it in the list is invoked.
C1_ShortCircuitOnDrop ==
    ChainRan =>
        \A n \in 1..Len(call.invoked) :
            ReturnedNull(call.invoked[n]) =>
                /\ call.result = Null
                /\ \A m \in 1..Len(call.invoked) :
                       m # n => call.invoked[m].index < call.invoked[n].index

\* a first callback returned null while a second one was configured
C1_Witness ==
    /\ ChainRan
    /\ Len(Callbacks(globalConfig.beforeSend)) >= 2
    /\ Len(call.invoked) = 1
    /\ call.invoked[1].index = 1
    /\ ReturnedNull(call.invoked[1])
    /\ call.result = Null

\* the value of fn(...f2(f1(event))) for the first n callbacks
RECURSIVE ChainValue(_, _, _)
ChainValue(callbacks, n, event) ==
    IF n = 0 THEN event
    ELSE Invoke(callbacks[n], ChainValue(callbacks, n - 1, event)).value

\* none of the first n callbacks returns null or throws along the chain
RECURSIVE ChainClean(_, _, _)
ChainClean(callbacks, n, event) ==
    \/ n = 0
    \/ /\ ChainClean(callbacks, n - 1, event)
       /\ LET r == Invoke(callbacks[n], ChainValue(callbacks, n - 1, event))
          IN ~r.threw /\ r.value # Null

\* C2: applyBeforeSend is a left-to-right fold: without beforeSend the event comes
\* back unchanged; a single callback f gives f(event); a list in which nothing
\* drops or throws gives fn(...f1(event)), each callback invoked once, in list
\* order, on the previous callback's result.
C2_LeftToRightFold ==
    (call.op = "applyBeforeSend" /\ call.outcome = "returned") =>
        IF ~Has(globalConfig, "beforeSend")
        THEN call.result = call.event /\ call.invoked = <<>>
        ELSE LET callbacks == Callbacks(globalConfig.beforeSend)
                 n == Len(callbacks)
             IN ChainClean(callbacks, n, call.event) =>
                   /\ call.result = ChainValue(callbacks, n, call.event)
                   /\ ~globalConfig.beforeSend.array =>
                         call.result = Invoke(globalConfig.beforeSend.fn, call.event).value
                   /\ Len(call.invoked) = n
                   /\ \A i \in 1..n :
                         /\ call.invoked[i].index = i
                         /\ call.invoked[i].arg = ChainValue(callbacks, i - 1, call.event)

\* the chain [add('1'), add('2')] turned the message msg into msg12
C2_Witness ==
    /\ ChainRan
    /\ globalConfig.beforeSend.array
    /\ globalConfig.beforeSend.fns =
          << [k |-> "append", s |-> "1"], [k |-> "append", s |-> "2"] >>
    /\ call.event.message = "msg"
    /\ call.result # Null
    /\ call.result.message = "msg12"

ErrorLogs(logged) == { i \in 1..Len(logged) : logged[i].level = "error" }

Throws(invoked) == { i \in 1..Len(invoked) : invoked[i].ret.threw }

\* C3: a throwing callback is a no-op: applyBeforeSend returns normally, the
\* failure is logged at error level, and the chain goes on with the next callback
\* on exactly the value the failing one was given (which is the result when the
\* failing callback is the last).
C3_ThrowingCallbackIsNoOp ==
    (call.op = "applyBeforeSend" /\ Has(call, "invoked") /\ Throws(call.invoked) # {}) =>
        /\ call.outcome = "returned"
        /\ Cardinality(ErrorLogs(call.logged)) = Cardinality(Throws(call.invoked))
        /\ \A n \in Throws(call.invoked) :
              LET callbacks == Callbacks(globalConfig.beforeSend)
              IN /\ call.invoked[n].arg # Null
                 /\ IF call.invoked[n].index < Len(callbacks)
                    THEN /\ n < Len(call.invoked)
                         /\ call.invoked[n + 1].index = call.invoked[n].index + 1
                         /\ call.invoked[n + 1].arg = call.invoked[n].arg
                    ELSE /\ n = Len(call.invoked)
                         /\ call.result = call.invoked[n].arg

\* a throwing callback sat between two appending ones: msg became msg12
C3_Witness ==
    /\ ChainRan
    /\ Len(call.invoked) = 3
    /\ Throws(call.invoked) = {2}
    /\ call.event.message = "msg"
    /\ call.result # Null
    /\ call.result.message = "msg12"
    /\ Len(call.logged) = 1

-----------------------------------------------------------------------------
(* Claims about the server and client runtimes (SpecRuntime) *)

\* C4: notify and notifySync of the server and of the client runtime never raise
\* into the host: in every state of the configuration store, and whatever the
\* downstream SDK does, the call returns normally / its promise resolves.
C4_NotifyNeverRaises ==
    call.op \in {"server.notify", "server.notifySync", "client.notify",
                 "client.notifySync"}
        => call.outcome \in {"returned", "resolved"}

\* C11: the per-runtime enable flags gate reporting: with enableServer = false
\* server notify and notifySync hand no error to the downstream Node SDK, and with
\* enableClient = false client notify and notifySync hand none to the browser SDK.
C11_EnableFlagsGate ==
    /\ (call.op \in {"server.notify", "server.notifySync"}
          /\ globalConfig # Null /\ globalConfig.enableServer = FALSE)
            => call.delegated = <<>>
    /\ (call.op \in {"client.notify", "client.notifySync"}
          /\ globalConfig # Null /\ globalConfig.enableClient = FALSE)
            => call.delegated = <<>>

-----------------------------------------------------------------------------
(* Claims about the edge runtime (SpecEdge) *)

EdgeCalled == call.op \in {"edge.notify", "edge.notifySync"}

\* the event the beforeSend chain makes of the last call's error and options
ChainResultOfCall ==
    applyBeforeSend(globalConfig, configuredLogger,
        EdgeEvent(EdgeNotice(globalConfig, call.error, call.options))).result

\* a configuration is live, the error is not ignored, the edge runtime is enabled
\* and the beforeSend chain, if configured, did not return null
EdgeGateOpen ==
    /\ globalConfig # Null
    /\ ~shouldIgnoreException(globalConfig, call.error)
    /\ globalConfig.enableEdge = TRUE
    /\ Has(globalConfig, "beforeSend") => ChainResultOfCall # Null

C6_SyncAppliesSameVeto ==
    call.op = "edge.notifySync" =>
        Len(call.fetched)
          = Len(EdgeNotifySends(globalConfig, configuredLogger, call.error,
                                call.options).fetched)

\* C7: the payload edge notify sends carries the message, context, tags and
\* fingerprint of the event that came out of the beforeSend chain.
C7_PayloadIsChainResult ==
    (call.op = "edge.notify" /\ Len(call.fetched) = 1 /\ Has(globalConfig, "beforeSend"))
        => LET body == call.fetched[1].body
               fields == {"context", "tags", "fingerprint"}
           IN /\ body.message = ChainResultOfCall.message
              /\ Pick(body, fields) = Pick(ChainResultOfCall, fields)

\* C8: in every payload edge notify or notifySync hands to the transport, each
\* value the caller's context holds under a key matching the effective filter
\* key set is replaced by '[FILTERED]'.
C8_PayloadIsRedacted ==
    (EdgeCalled /\ Len(call.fetched) = 1 /\ Has(call.options, "context")) =>
        LET body == call.fetched[1].body
        IN \A key \in DOMAIN call.options.context :
               FilterPatternTest(getFilterKeys(globalConfig), key) =>
                   /\ Has(body, "context")
                   /\ Has(body.context, key)
                   /\ body.context[key] = FILTERED

\* the transport answered ok with a body that decodes to a value other than null
DecodedOk(transport) ==
    /\ transport.kind = "response"
    /\ transport.ok
    /\ transport.decodes
    /\ transport.data # Null

\* C9 as stated: edge notify and notifySync resolve for every transport outcome,
\* and notifySync resolves to an object with the id exactly when the transport
\* responded ok.
C9_SyncIdIffResponseOk ==
    (EdgeCalled /\ Len(call.fetched) = 1) =>
        /\ call.outcome = "resolved"
        /\ call.op = "edge.notifySync" =>
              (call.result # Null <=> (call.transport.kind = "response" /\ call.transport.ok))

\* C9 as amended: edge notify resolves to undefined and edge notifySync resolves
\* for every transport outcome; notifySync resolves to an object with an id exactly
\* when the transport responded ok and the body decoded to a value other than
\* null (the id is the body's id, or 'unknown' when the body has no id or an
\* empty one), and to null otherwise.
C9_EdgeFailsOpen ==
    EdgeCalled =>
        /\ call.outcome = "resolved"
        /\ call.op = "edge.notify" => ~Has(call, "result")
        /\ call.op = "edge.notifySync" =>
              IF Len(call.fetched) = 1 /\ DecodedOk(call.transport)
              THEN call.result =
                      [id |-> IF /\ Has(call.transport.data, "id")
                                 /\ call.transport.data.id # ""
                              THEN call.transport.data.id ELSE "unknown"]
              ELSE call.result = Null

\* the transport answered ok with a body that does not decode, and notifySync
\* resolved to null
C9_Witness ==
    /\ call.op = "edge.notifySync"
    /\ Len(call.fetched) = 1
    /\ call.transport.kind = "response"
    /\ call.transport.ok
    /\ ~call.transport.decodes
    /\ call.outcome = "resolved"
    /\ call.result = Null

EqualsIgnoreCase(a, b) == toLowerCase(a) = toLowerCase(b)

CustomFilterKeys ==
    IF Has(globalConfig, "filterKeys") THEN globalConfig.filterKeys ELSE <<>>

\* the header name is one of the fixed sensitive names or a custom filter key
SensitiveHeader(h) ==
    \/ \E fixed \in {"authorization", "cookie", "x-api-key", "x-auth-token"} :
           EqualsIgnoreCase(h, fixed)
    \/ \E i \in 1..Len(CustomFilterKeys) : EqualsIgnoreCase(h, CustomFilterKeys[i])

-----------------------------------------------------------------------------
(* Claims about the configuration store (SpecConfig) *)

\* what the accessors answer in the state they are called in
AccessorsReadTheStore ==
    /\ call.op = "isInitialized" =>
          /\ call.outcome = "returned"
          /\ call.result = (globalConfig # Null)
    /\ call.op = "getConfig" =>
          IF globalConfig = Null
          THEN call.outcome = "threw" /\ call.error = "Checkend not initialized"
          ELSE call.outcome = "returned" /\ call.result = globalConfig
    /\ call.op = "reset" =>
          /\ call.outcome = "returned"
          /\ globalConfig = Null
          /\ configuredLogger = Null

\* how a step changes the store: a successful init makes the configuration it
\* returns the live one, reset leaves nothing live whatever was live before, and
\* every other step (a failing init, an accessor, the return to the host) leaves
\* the store as it is
StoreChangesByInitAndReset ==
    IF call'.op = "init" /\ call'.outcome = "returned"
    THEN globalConfig' = call'.result /\ globalConfig' # Null
    ELSE IF call'.op = "reset"
    THEN globalConfig' = Null /\ configuredLogger' = Null
    ELSE globalConfig' = globalConfig /\ configuredLogger' = configuredLogger

\* C12: after any sequence of init and reset calls isInitialized() never fails
\* and is true exactly when an init has succeeded since the last reset;
\* getConfig() fails with the not-initialized error exactly when isInitialized()
\* is false and otherwise returns the configuration of the last successful init;
\* reset never fails and leaves the same state whether or not a reset preceded it.
C12_ConfigLifecycle ==
    /\ []AccessorsReadTheStore
    /\ [][StoreChangesByInitAndReset]_vars

\* getConfig returned a live configuration that overrides a default
C12_Witness ==
    /\ call.op = "getConfig"
    /\ call.outcome = "returned"
    /\ call.result.apiKey = "sk_live_0123456789"
    /\ call.result.maxQueueSize = 10

\* C13: init with an absent or empty credential fails with the configuration
\* error and changes nothing: the live configuration (or the absence of one) and
\* the active logger are what they were before the call.
C13_FailedInitChangesNothing ==
    [][ (/\ call'.op = "init"
         /\ \/ "apiKey" \notin DOMAIN call'.options
            \/ call'.options.apiKey = "")
          => /\ call'.outcome = "threw"
             /\ call'.error = "apiKey is required"
             /\ globalConfig' = globalConfig
             /\ configuredLogger' = configuredLogger ]_vars

\* init('') failed while a configuration with a user logger was live
C13_Witness ==
    /\ call.op = "init"
    /\ Has(call.options, "apiKey")
    /\ call.options.apiKey = ""
    /\ call.outcome = "threw"
    /\ globalConfig # Null
    /\ configuredLogger = [kind |-> "user"]

\* the documented defaults
DocumentedDefaults ==
    [enableClient |-> TRUE, enableServer |-> TRUE, enableEdge |-> TRUE,
     debug |-> FALSE, useDefaultFilterKeys |-> TRUE,
     timeout |-> 30000, connectTimeout |-> 10000, maxQueueSize |-> 1000,
     shutdownTimeout |-> 5000]

\* C14: the configuration init returns, which later getConfig calls return too,
\* holds for each option with a default the caller's value when the caller
\* supplied one and the default otherwise (true, true, true, false, true, 30000,
\* 10000, 1000, 5000), and every other supplied field unchanged.
C14_OptionsOverDefaults ==
    /\ (call.op = "init" /\ call.outcome = "returned") =>
          /\ globalConfig = call.result
          /\ DOMAIN call.result = DOMAIN call.options \cup DOMAIN DocumentedDefaults
          /\ \A f \in DOMAIN call.result :
                call.result[f] = IF f \in DOMAIN call.options
                                 THEN call.options[f] ELSE DocumentedDefaults[f]
    /\ (call.op = "getConfig" /\ call.outcome = "returned") =>
          /\ call.result = globalConfig
          /\ DOMAIN DocumentedDefaults \subseteq DOMAIN call.result

\* init({ apiKey, timeout: 5000 }) returned the caller's timeout beside the
\* default connect timeout
C14_Witness ==
    /\ call.op = "init"
    /\ call.outcome = "returned"
    /\ DOMAIN call.options = {"apiKey", "timeout"}
    /\ call.result.timeout = 5000
    /\ call.result.connectTimeout = 10000
    /\ call.result.debug = FALSE

\* C15: init never discloses the full credential to the logger: no argument of a
\* logger call contains the complete credential; the echoed configuration carries
\* the credential's first 8 characters followed by an ellipsis.
C15_CredentialNeverLogged ==
    (call.op = "init" /\ call.outcome = "returned") =>
        \A i \in 1..Len(call.logged) :
            \A j \in 1..Len(call.logged[i].args) :
                LET echoed == call.logged[i].args[j].apiKey
                    credential == call.options.apiKey
                IN /\ ~(\E k \in 0..(Len(echoed) - Len(credential)) :
                           SubSeq(echoed, k + 1, k + Len(credential)) = credential)
                   /\ \E n \in 0..8 :
                         /\ n <= Len(credential)
                         /\ n = 8 \/ n = Len(credential)
                         /\ echoed = SubSeq(credential, 1, n) \o "..."

-----------------------------------------------------------------------------
(* Claims about the decision functions (SpecDecide) *)

DecisionFunctions ==
    {"shouldIgnoreRoute", "shouldIgnoreException", "getFilterKeys", "sanitize",
     "applyBeforeSend"}

\* the error a failed call raised
Raised(c) == IF Has(c, "thrown") THEN c.thrown ELSE c.error

\* C16: with no configuration live, each of shouldIgnoreRoute,
\* shouldIgnoreException, getFilterKeys, sanitize and applyBeforeSend fails with
\* the not-initialized error, invokes no user callback and leaves the store
\* uninitialised.
C16_DecisionsNeedConfig ==
    [][ (globalConfig = Null /\ call'.op \in DecisionFunctions)
          => /\ call'.outcome = "threw"
             /\ Raised(call') = "Checkend not initialized"
             /\ Has(call', "invoked") => call'.invoked = <<>>
             /\ globalConfig' = Null
             /\ configuredLogger' = configuredLogger ]_vars

\* sanitize, which reads the configuration through getFilterKeys, failed with
\* nothing live
C16_Witness ==
    /\ call.op = "sanitize"
    /\ call.outcome = "threw"
    /\ call.error = "Checkend not initialized"
    /\ globalConfig = Null

\* p is a prefix of s
IsPrefix(p, s) == \E n \in 0..Len(s) : SubSeq(s, 1, n) = p

\* p occurs in s
IsSubstring(p, s) == \E m \in 1..(Len(s) + 1) : \E n \in (m - 1)..Len(s) : SubSeq(s, m, n) = p

\* the pattern rule tests true against s
PatternTests(rule, s) ==
    IF rule.anchored THEN IsPrefix(rule.source, s) ELSE IsSubstring(rule.source, s)

\* the rule list of the live configuration, empty when the field is absent
LiveRules(field) == IF Has(globalConfig, field) THEN globalConfig[field] ELSE <<>>

\* C17: shouldIgnoreRoute(path) is true if and only if the live ignored-route list
\* holds a string rule r with path = r or path starting with r, or a pattern rule
\* that tests true against path; with an empty or absent list it is false.
C17_RouteMatch ==
    (call.op = "shouldIgnoreRoute" /\ globalConfig # Null) =>
        /\ call.outcome = "returned"
        /\ call.result <=>
              \E i \in 1..Len(LiveRules("ignoredRoutes")) :
                  LET rule == LiveRules("ignoredRoutes")[i]
                  IN IF rule.regex
                     THEN PatternTests(rule, call.route)
                     ELSE call.route = rule.s \/ IsPrefix(rule.s, call.route)

\* /api/internal/health was ignored for starting with the rule /api/internal
C17_Witness ==
    /\ call.op = "shouldIgnoreRoute"
    /\ call.outcome = "returned"
    /\ call.route = "/api/internal/health"
    /\ LiveRules("ignoredRoutes") = << StringRule("/health"), StringRule("/api/internal") >>
    /\ call.result = TRUE

\* C18: shouldIgnoreException(error) is true if and only if the live
\* ignored-exception list holds a string rule r with error.name = r or
\* error.message containing r, or a pattern rule that tests true against
\* "name: message"; with an empty or absent list it is false.
C18_ExceptionMatch ==
    (call.op = "shouldIgnoreException" /\ globalConfig # Null) =>
        /\ call.outcome = "returned"
        /\ call.result <=>
              \E i \in 1..Len(LiveRules("ignoredExceptions")) :
                  LET rule == LiveRules("ignoredExceptions")[i]
                  IN IF rule.regex
                     THEN PatternTests(rule, call.error.name \o ": " \o call.error.message)
                     ELSE \/ call.error.name = rule.s
                          \/ IsSubstring(rule.s, call.error.message)

\* an Error was ignored because its message contains the rule ECONNRESET
C18_Witness ==
    /\ call.op = "shouldIgnoreException"
    /\ call.outcome = "returned"
    /\ call.error = [name |-> "Error", message |-> "ECONNRESET: Connection reset"]
    /\ LiveRules("ignoredExceptions") = << StringRule("ECONNRESET"), StringRule("timeout") >>
    /\ call.result = TRUE

-----------------------------------------------------------------------------
(* Claims about the sanitizer (SpecSanitize) *)

\* A position in a value is the path of object keys and array indices that
\* leads to it from the root; its nesting depth is the length of the path.
AtKey(k) == [key |-> k]
AtIndex(i) == [index |-> i]

\* the positions of a value, the root <<>> included
RECURSIVE PathsOf(_)
PathsOf(v) ==
    { <<>> } \cup
      CASE v.type = "object" ->
              UNION { { << AtKey(k) >> \o p : p \in PathsOf(v.fields[k]) } :
                        k \in DOMAIN v.fields }
        [] v.type = "array" ->
              UNION { { << AtIndex(i) >> \o p : p \in PathsOf(v.items[i]) } :
                        i \in 1..Len(v.items) }
        [] OTHER -> {}

\* the value at a position
RECURSIVE At(_, _)
At(v, p) ==
    IF Len(p) = 0 THEN v
    ELSE IF Has(Head(p), "key") THEN At(v.fields[Head(p).key], Tail(p))
    ELSE At(v.items[Head(p).index], Tail(p))

Sanitized == call.op = "sanitize" /\ call.outcome = "returned"

\* the object keys that occur in a value
KeysOf(v) == { p[Len(p)].key : p \in { q \in PathsOf(v) : q # <<>> /\ Has(q[Len(q)], "key") } }

\* the keys of the input that match the effective filter keys of the live
\* configuration: those that contain one of them, whatever the case of letters
MatchingKeys ==
    LET keys == getFilterKeys(globalConfig)
        lowered == { toLowerCase(keys[i]) : i \in 1..Len(keys) }
    IN { key \in KeysOf(call.data) :
           \E k \in lowered : IsSubstring(k, toLowerCase(key)) }

\* the step of a path is one of the keys
Sensitive(keys, step) == Has(step, "key") /\ step.key \in keys

\* the positions of the input held under one of the keys by an object located at
\* nesting depth <= maxDepth
SensitivePositions(keys) ==
    { p \in PathsOf(call.data) :
        /\ Len(p) >= 1
        /\ Len(p) - 1 <= call.maxDepth
        /\ Sensitive(keys, p[Len(p)]) }

FilteredKeys ==
    LET filterPattern == FilterPattern(getFilterKeys(globalConfig))
    IN { key \in KeysOf(call.data) : PatternTest(filterPattern, key) }

-----------------------------------------------------------------------------
(* Claims about the effective filter keys (SpecDecide, SpecSanitize) *)

\* the elements of a list
Elements(list) == { list[i] : i \in 1..Len(list) }

\* no element of the list occurs twice
NoDuplicates(list) ==
    \A i, j \in 1..Len(list) : list[i] = list[j] => i = j

\* the last call was a getFilterKeys that returned
FilterKeysReturned == call.op = "getFilterKeys" /\ call.outcome = "returned"

\* the custom keys of the live configuration
CustomKeys == IF Has(globalConfig, "filterKeys") THEN globalConfig.filterKeys ELSE <<>>

\* C21: getFilterKeys returns the built-in and the custom keys when
\* useDefaultFilterKeys is not false and exactly the custom keys when it is
\* false, and in both cases no key occurs twice in the result.
C21_EffectiveKeysWithoutDuplicates ==
    FilterKeysReturned =>
        /\ NoDuplicates(call.result)
        /\ Elements(call.result) =
              IF globalConfig.useDefaultFilterKeys # FALSE
              THEN Elements(DEFAULT_FILTER_KEYS) \cup Elements(CustomKeys)
              ELSE Elements(CustomKeys)

\* the effective filter keys of the live configuration, as a set
EffectiveKeys ==
    IF globalConfig.useDefaultFilterKeys # FALSE
    THEN Elements(DEFAULT_FILTER_KEYS) \cup Elements(CustomKeys)
    ELSE Elements(CustomKeys)

\* the positions of the output where sanitize put '[FILTERED]' in place of
\* another value of the input
RedactedPositions ==
    { q \in PathsOf(call.result) :
        /\ q # <<>>
        /\ Has(q[Len(q)], "key")
        /\ At(call.result, q) = JsString(FILTERED)
        /\ At(call.data, q) # JsString(FILTERED) }

\* C22: after any sequence of init and reset, getFilterKeys and sanitize use
\* the filterKeys and useDefaultFilterKeys of the live configuration only:
\* getFilterKeys returns its effective keys, and sanitize redacts no key that
\* matches none of them, whatever an earlier configuration redacted.
C22_KeysOfTheLiveConfiguration ==
    /\ FilterKeysReturned => Elements(call.result) = EffectiveKeys
    /\ Sanitized =>
          \A q \in RedactedPositions :
              \E k \in EffectiveKeys :
                  IsSubstring(toLowerCase(k), toLowerCase(q[Len(q)].key))

-----------------------------------------------------------------------------
(* Claims about the capture harness (SpecHarness) *)

\* the host makes a call of the operation: the step from idle to its outcome
Calls(op) == call.op = "idle" /\ call'.op = op

\* C23: a setup performed while the harness is already active changes no
\* state: the live configuration, the notice store, the installed interceptor,
\* the remembered original transport and the active flag stay as they were; it
\* only logs a warning and raises no error.
C23_SetupWhileActiveChangesNothing ==
    [][ Calls("setup") /\ isTestMode =>
          /\ UNCHANGED <<globalConfig, configuredLogger, capturedNotices, fetch,
                         originalFetch, isTestMode>>
          /\ call'.outcome = "returned"
          /\ call'.warned = << AlreadyInTestMode >> ]_vars

\* a second setup, with other overrides, met an active harness that held a notice
C23_Witness ==
    /\ call.op = "setup"
    /\ call.config = [apiKey |-> "custom-key", environment |-> "staging"]
    /\ call.warned = << AlreadyInTestMode >>
    /\ isTestMode
    /\ globalConfig # Null
    /\ globalConfig.apiKey = "test-api-key"
    /\ Len(capturedNotices) = 1

\* the harness is active: the store is empty, the interceptor is installed and
\* the transport it replaced is remembered, and the live configuration is the
\* test defaults overridden field by field by the overrides, with init's
\* defaults for the rest and nothing of the configuration that was live before
ActiveAfterSetup(config) ==
    /\ isTestMode'
    /\ capturedNotices' = <<>>
    /\ fetch' = MockFetch
    /\ originalFetch' = fetch
    /\ globalConfig' # Null
    /\ DOMAIN globalConfig' =
          DOMAIN config \cup DOMAIN TestDefaults \cup DOMAIN ConfigDefaults
    /\ \A f \in DOMAIN globalConfig' :
          globalConfig'[f] = IF Has(config, f) THEN config[f]
                             ELSE IF Has(TestDefaults, f) THEN TestDefaults[f]
                             ELSE ConfigDefaults[f]

C25_TeardownRestores ==
    /\ [][ Calls("setup") /\ ~isTestMode /\ isTestMode' => originalFetch' = fetch ]_vars
    /\ [][ isTestMode /\ isTestMode' => originalFetch' = originalFetch ]_vars
    /\ [][ Calls("teardown") =>
             IF ~isTestMode
             THEN UNCHANGED <<globalConfig, configuredLogger, capturedNotices, fetch,
                              originalFetch, isTestMode>>
             ELSE /\ ~isTestMode'
                  /\ capturedNotices' = <<>>
                  /\ globalConfig' = Null
                  /\ fetch' = originalFetch ]_vars

\* the query, assertion and injection operations of the harness
GuardedOperations ==
    { "notices", "lastNotice", "firstNotice", "noticeCount", "hasNotices",
      "findNotices", "findNoticesByClass", "findNoticesByTag", "findNoticesByRuntime",
      "clearNotices", "assertNoticeCount", "assertNoNotices", "addNotice" }

\* C26: every query, assertion and injection operation of the harness fails
\* with the not-in-test-mode error when the harness is inactive and leaves the
\* store and the active flag unchanged; isActive alone never fails.
C26_OperationsNeedTestMode ==
    /\ [][ call.op = "idle" /\ call'.op \in GuardedOperations /\ ~isTestMode =>
             /\ call'.outcome = "threw"
             /\ call'.error = NotInTestMode
             /\ UNCHANGED <<capturedNotices, isTestMode>> ]_vars
    /\ [][ Calls("isActive") =>
             /\ call'.outcome = "returned"
             /\ call'.result = isTestMode
             /\ UNCHANGED <<capturedNotices, isTestMode>> ]_vars

\* clearNotices failed on an inactive harness whose store held a notice
C26_Witness ==
    /\ call.op = "clearNotices"
    /\ call.outcome = "threw"
    /\ call.error = NotInTestMode
    /\ ~isTestMode
    /\ Len(capturedNotices) = 1

\* the host calls the interceptor, while the harness is active, with a URL that
\* matches the heuristic
Intercepts ==
    /\ Calls("fetch")
    /\ isTestMode
    /\ fetch = MockFetch
    /\ \/ Includes(UrlOf(call'.input), "/ingest/")
       \/ Includes(UrlOf(call'.input), "checkend")

\* the call resolved with a creation response that carries an id, and nothing
\* was forwarded to the original transport
FabricatedSuccess ==
    /\ call'.settled.kind = "response"
    /\ call'.settled.ok
    /\ call'.settled.status = "201"
    /\ Has(call'.settled.data, "id")
    /\ call'.forwarded = <<>>

\* the store grew by exactly one notice, behind the ones it held
AppendedOne ==
    /\ Len(capturedNotices') = Len(capturedNotices) + 1
    /\ SubSeq(capturedNotices', 1, Len(capturedNotices)) = capturedNotices

\* C27 as stated: while the harness is active, every call through the
\* installed transport whose URL contains '/ingest/' or 'checkend' appends
\* exactly one Captured Notice to the store, resolves with a fabricated
\* successful creation response carrying an id, and never invokes the original
\* transport.
C27_EveryMatchIsCaptured ==
    [][ Intercepts => AppendedOne /\ FabricatedSuccess ]_vars

\* the body of the call is the JSON text of a value other than null
HoldsPayload(options) ==
    /\ Has(options, "body")
    /\ Has(options.body, "json")
    /\ options.body.json # Null

\* C27 as amended: every such call resolves with the fabricated response and
\* never invokes the original transport; it appends exactly one Captured Notice
\* when its body is the JSON text of a value other than null, and leaves the
\* store unchanged when the body is absent, empty, not JSON or the JSON of null.
C27_MatchWithPayloadIsCaptured ==
    [][ Intercepts =>
          /\ FabricatedSuccess
          /\ IF HoldsPayload(call'.options)
             THEN AppendedOne
             ELSE capturedNotices' = capturedNotices ]_vars

\* a Request whose URL only carries the product's name was captured with the
\* class its body gave, and answered with a fresh id
C27_Witness ==
    /\ call.op = "fetch"
    /\ call.via = MockFetch
    /\ isTestMode
    /\ call.input = [kind |-> "Request", url |-> "https://api.example.com/checkend"]
    /\ call.forwarded = <<>>
    /\ call.settled.data = [id |-> "test-2"]
    /\ Len(capturedNotices) = 2
    /\ capturedNotices[2].errorClass = "Legacy"

\* the host calls the interceptor, while the harness is active, with a URL that
\* does not match the heuristic
PassesThrough ==
    /\ Calls("fetch")
    /\ isTestMode
    /\ fetch = MockFetch
    /\ ~Includes(UrlOf(call'.input), "/ingest/")
    /\ ~Includes(UrlOf(call'.input), "checkend")

\* C28: while the harness is active, a call through the installed transport
\* whose URL does not match the heuristic is forwarded to the original
\* transport with the same arguments and its result is returned, the store
\* unchanged; when no original transport is available the call fails with the
\* transport-unavailable error.
C28_PassThrough ==
    [][ PassesThrough =>
          /\ capturedNotices' = capturedNotices
          /\ IF originalFetch \in {NativeFetch, HostFetch, MockFetch}
             THEN /\ call'.forwarded =
                        << [to |-> originalFetch, input |-> call'.input,
                            options |-> call'.options] >>
                  /\ originalFetch # MockFetch =>
                        call'.settled = call'.env.transport
             ELSE /\ call'.forwarded = <<>>
                  /\ call'.settled.kind = "rejected"
                  /\ call'.settled.error = "Original fetch not available" ]_vars

\* a POST to another host went to the fetch the host had assigned, body
\* included, and the network's failure came back
C28_Witness ==
    /\ call.op = "fetch"
    /\ call.via = MockFetch
    /\ isTestMode
    /\ originalFetch = HostFetch
    /\ call.input = [kind |-> "string", string |-> "https://api.example.com/users"]
    /\ Len(call.forwarded) = 1
    /\ call.forwarded[1].to = HostFetch
    /\ Has(call.forwarded[1].options, "body")
    /\ call.settled = [kind |-> "rejected"]
    /\ Len(capturedNotices) = 1

\* a call to another host failed for want of an original transport
C28_WitnessUnavailable ==
    /\ call.op = "fetch"
    /\ call.via = MockFetch
    /\ isTestMode
    /\ originalFetch = NoFetch
    /\ call.settled.kind = "rejected"
    /\ call.settled.error = "Original fetch not available"

\* the operations that only read the store
QueryOperations ==
    { "notices", "lastNotice", "firstNotice", "noticeCount", "hasNotices", "isActive",
      "findNotices", "findNoticesByClass", "findNoticesByTag", "findNoticesByRuntime",
      "assertNoticeCount", "assertNoNotices" }

\* the elements of the store that satisfy the predicate, in store order: the
\* k-th is the element at the k-th smallest index that satisfies it
Selected(store, predicate) ==
    LET hits == { i \in 1..Len(store) : Satisfies(store[i], predicate) }
        nth(k) == CHOOSE i \in hits : Cardinality({ j \in hits : j < i }) = k - 1
    IN [ k \in 1..Cardinality(hits) |-> store[nth(k)] ]

\* what a query that returned says of the store
QueriesReadTheStore ==
    call.op \in QueryOperations /\ call.outcome = "returned" /\ isTestMode =>
        CASE call.op = "notices" -> call.result = capturedNotices
          [] call.op = "noticeCount" -> call.result = Len(capturedNotices)
          [] call.op = "hasNotices" -> (call.result <=> capturedNotices # <<>>)
          [] call.op = "firstNotice" ->
                IF capturedNotices = <<>> THEN ~Has(call, "result")
                ELSE call.result = Head(capturedNotices)
          [] call.op = "lastNotice" ->
                IF capturedNotices = <<>> THEN ~Has(call, "result")
                ELSE call.result = capturedNotices[Len(capturedNotices)]
          [] call.op = "findNotices" ->
                call.result = Selected(capturedNotices, call.args[1])
          [] call.op = "findNoticesByClass" ->
                call.result = Selected(capturedNotices, [k |-> "class", s |-> call.args[1]])
          [] call.op = "findNoticesByTag" ->
                call.result = Selected(capturedNotices, [k |-> "tag", s |-> call.args[1]])
          [] call.op = "findNoticesByRuntime" ->
                call.result = Selected(capturedNotices, [k |-> "runtime", s |-> call.args[1]])
          [] OTHER -> TRUE

\* what a step of an active session does to the store: addNotice appends the
\* notice it is given, an interception appends at most one notice,
\* clearNotices empties the store, and every other step leaves it as it is
StoreStep ==
    isTestMode /\ isTestMode' /\ call.op = "idle" =>
        CASE call'.op = "addNotice" ->
                /\ AppendedOne
                /\ \A f \in DOMAIN call'.args[1] :
                      capturedNotices'[Len(capturedNotices')][f] = call'.args[1][f]
          [] call'.op \in {"fetch", "edge.notify", "edge.notifySync"} ->
                capturedNotices' = capturedNotices \/ AppendedOne
          [] call'.op = "clearNotices" -> capturedNotices' = <<>>
          [] OTHER -> capturedNotices' = capturedNotices

\* C30: within an active session the store is an append-only ordered sequence:
\* it holds, in order, the notices appended by addNotice or by interception
\* since the later of setup and the most recent clearNotices; noticeCount is
\* its length, hasNotices holds iff it is not empty, firstNotice and lastNotice
\* are its first and last elements (undefined when it is empty), findNotices
\* returns the elements that satisfy the predicate in store order, and no query
\* changes the store.
C30_StoreIsAppendOnly ==
    /\ []QueriesReadTheStore
    /\ [][StoreStep]_vars
    /\ [][ Calls("setup") /\ ~isTestMode /\ isTestMode' => capturedNotices' = <<>> ]_vars
    /\ [][ call'.op \in QueryOperations => capturedNotices' = capturedNotices ]_vars

\* of an injected notice followed by a captured one, findNoticesByClass
\* returned the captured one alone
C30_Witness ==
    /\ call.op = "findNoticesByClass"
    /\ call.outcome = "returned"
    /\ call.args = << "TypeError" >>
    /\ isTestMode
    /\ Len(capturedNotices) = 2
    /\ capturedNotices[1].errorClass = "ValidationError"
    /\ capturedNotices[2].errorClass = "TypeError"
    /\ call.result = << capturedNotices[2] >>

\* C31: while the harness is active, assertNoticeCount(n) returns normally if
\* and only if the store holds exactly n notices and otherwise fails with an
\* error that embeds both n and the actual count; assertNoNotices() returns
\* normally if and only if the store is empty; neither changes the store.
C31_Assertions ==
    /\ [][ isTestMode /\ Calls("assertNoticeCount") =>
             LET expected == call'.args[1]
                 actual == Len(capturedNotices)
             IN /\ capturedNotices' = capturedNotices
                /\ call'.outcome = "returned" <=> actual = expected
                /\ call'.outcome # "returned" =>
                      /\ call'.outcome = "threw"
                      /\ Includes(call'.error,
                                  "Expected " \o NumberToString(expected)
                                    \o " notice(s), but got "
                                    \o NumberToString(actual)) ]_vars
    /\ [][ isTestMode /\ Calls("assertNoNotices") =>
             /\ capturedNotices' = capturedNotices
             /\ call'.outcome = "returned" <=> capturedNotices = <<>>
             /\ call'.outcome # "returned" =>
                   /\ call'.outcome = "threw"
                   /\ Includes(call'.error, "Expected no notices, but got "
                                              \o NumberToString(Len(capturedNotices))) ]_vars

\* assertNoticeCount(1) failed on a store of two notices and named both
\* numbers and the classes held
C31_Witness ==
    /\ call.op = "assertNoticeCount"
    /\ call.args = << 1 >>
    /\ call.outcome = "threw"
    /\ isTestMode
    /\ Len(capturedNotices) = 2
    /\ call.error = "Expected 1 notice(s), but got 2. Notices: "
                      \o "[\"ValidationError\",\"TypeError\"]"

\* C39: in every state reachable by setup, teardown, addNotice, clearNotices
\* and transport calls, sessions started without an outbound transport
\* included, whenever the harness is inactive the store is empty and the
\* installed transport is not the interceptor.
C39_InactiveIsClean ==
    ~isTestMode => capturedNotices = <<>> /\ fetch # MockFetch

-----------------------------------------------------------------------------
(* Claims about edge reports under the harness (SpecCapture) *)

\* edge notify sends an event through the interceptor of an active harness
SendsUnderHarness ==
    /\ Calls("edge.notify")
    /\ isTestMode
    /\ fetch = MockFetch
    /\ Len(call'.fetched) = 1

\* the field is absent from both objects or holds the same value in both
SameField(a, f, b, g) ==
    /\ Has(a, f) <=> Has(b, g)
    /\ Has(a, f) => a[f] = b[g]

\* C29: for every event that edge notify sends while the harness is active,
\* whatever the error's name and message, the empty string included, and with
\* tags and fingerprint present or absent, the Captured Notice appended to the
\* store has the event's error class, message, tags and fingerprint.
C29_CaptureRoundTrip ==
    [][ SendsUnderHarness =>
          /\ AppendedOne
          /\ LET notice == capturedNotices'[Len(capturedNotices')]
             IN /\ notice.errorClass = call'.error.name
                /\ notice.message = call'.error.message
                /\ SameField(notice, "tags", call'.options, "tags")
                /\ SameField(notice, "fingerprint", call'.options, "fingerprint") ]_vars

\* C32: a notice that edge notify sends while the harness is active, with no
\* browser window present and the default or test endpoint, is stored with
\* runtime 'edge': findNoticesByRuntime('edge') returns it and
\* findNoticesByRuntime('server') does not.
C32_EdgeNoticesAreEdge ==
    [][ SendsUnderHarness /\ ~call'.window =>
          /\ AppendedOne
          /\ LET notice == capturedNotices'[Len(capturedNotices')]
                 byRuntime(r) == Elements(Filter(capturedNotices',
                                                 [k |-> "runtime", s |-> r]))
             IN /\ notice.runtime = "edge"
                /\ notice \in byRuntime("edge")
                /\ notice \notin byRuntime("server") ]_vars

-----------------------------------------------------------------------------
(* Claims about a second pass of the sanitizer (SpecSanitize) *)

\* C37: sanitize is idempotent under a fixed live configuration: for every
\* input x and every maxDepth, sanitize(sanitize(x)) equals sanitize(x);
\* redaction markers, max-depth markers and truncated strings are fixed points
\* of a second pass.
C37_SanitizeIdempotent ==
    call.op = "sanitize" /\ call.outcome = "returned" =>
        sanitize(getConfig(globalConfig).value, call.result, call.maxDepth) = call.result

\* a first pass that cut a long text and redacted a key; both survive a second
\* pass
C37_Witness ==
    /\ call.op = "sanitize"
    /\ call.outcome = "returned"
    /\ call.maxDepth = 1
    /\ call.data =
          JsObject([comment |-> JsString(LongText), password |-> JsString("s3cret")])
    /\ call.result =
          JsObject([comment |-> JsString(SliceFromStart(LongText, 10000)
                                          \o "...[TRUNCATED]"),
                    password |-> JsString(FILTERED)])
    /\ Len(call.result.fields.comment.string) = 10014

\* the key contains one of the effective filter keys, whatever the case of
\* letters
MatchesEffectiveKey(key) ==
    \E k \in EffectiveKeys : IsSubstring(toLowerCase(k), toLowerCase(key))

\* the positions of the input whose nesting depth is within maxDepth
PositionsWithinDepth == { p \in PathsOf(call.data) : Len(p) <= call.maxDepth }

Scalar(v) == v.type \notin {"object", "array"}

\* C38: sanitize redacts only matching keys: a key's value is replaced by
\* '[FILTERED]' only if the key matches at least one key of the effective
\* filter key set; when that set is empty (useDefaultFilterKeys false and no
\* custom keys) no key is redacted and the output has the same keys and scalar
\* values as the input within maxDepth.
C38_OnlyMatchingKeysRedacted ==
    Sanitized =>
        /\ \A q \in RedactedPositions : MatchesEffectiveKey(q[Len(q)].key)
        /\ EffectiveKeys = {} =>
              /\ RedactedPositions = {}
              /\ \A p \in PositionsWithinDepth :
                    /\ p \in PathsOf(call.result)
                    /\ Scalar(At(call.data, p)) => At(call.result, p) = At(call.data, p)

-----------------------------------------------------------------------------
(* Claims about the integrations (SpecWrappers) *)

\* C35: the server's runWithContext(fn) invokes fn exactly once per call, for
\* every fn (returning, throwing synchronously, returning a rejected promise)
\* and whether or not the downstream SDK's runWithContext is available; the
\* caller receives fn's result or error.
C35_RunsOnce ==
    call.op = "runWithContext" =>
        /\ call.invocations = 1
        /\ call.result = CallOf(call.fn)

\* a call of one of the three wrapped handlers has settled
Wrapped == call.op \in {"withCheckendRoute", "withCheckendMiddleware", "withCheckendAction"}

\* the places of the events of a kind in the trace of the call
Events(ev) == { i \in 1..Len(call.trace) : call.trace[i].ev = ev }

\* C33: the wrappers are transparent: in every configuration state, none live
\* included, and whatever the reporting path does, each call invokes the
\* original handler exactly once and the caller observes exactly the handler's
\* return value or error.
C33_WrappersAreTransparent ==
    Wrapped =>
        /\ Cardinality(Events("handler")) = 1
        /\ call.promise = Async(CallOf(call.handler))

\* the handler of the call threw an Error (or rejected with one) on a route
\* that is not ignored
MustReport ==
    LET settled == Async(CallOf(call.handler))
    IN /\ settled.promise = "rejected"
       /\ IsError(settled.with)
       /\ ~shouldIgnoreRoute(globalConfig, call.pathname)

\* C34: under a live configuration, when the handler wrapped by
\* withCheckendMiddleware or withCheckendRoute throws an Error on a route that
\* is not ignored, notify is invoked exactly once, with that error, before the
\* re-throw (for the middleware its promise has settled before the re-throw);
\* when the route is ignored, the handler succeeds or the thrown value is not an
\* Error, notify is never invoked.
C34_NotifyBeforeRethrow ==
    call.op \in {"withCheckendRoute", "withCheckendMiddleware"} /\ globalConfig # Null =>
        LET error == Async(CallOf(call.handler)).with
        IN IF MustReport
           THEN \E i \in 1..Len(call.trace) :
                   /\ Events("notify") = {i}
                   /\ call.trace[i].error = error
                   /\ \E j \in (i + 1)..Len(call.trace) :
                         /\ call.trace[j] = Thrown(error)
                         /\ call.op = "withCheckendMiddleware" =>
                               i + 1 < j /\ call.trace[i + 1] = NotifySettled
           ELSE Events("notify") = {}

\* the middleware reported a handler's Error on a route beside an ignored one
\* and then threw it again
C34_Witness ==
    /\ call.op = "withCheckendMiddleware"
    /\ globalConfig # Null
    /\ Has(globalConfig, "ignoredRoutes")
    /\ call.pathname = "/api/users"
    /\ call.handler.kind = "throws"
    /\ Len(call.trace) = 4
    /\ call.trace[2].ev = "notify"
    /\ call.trace[2].error = call.handler.thrown
    /\ call.trace[4] = Thrown(call.handler.thrown)
    /\ Len(call.fetched) = 1

-----------------------------------------------------------------------------
(* Claims about the client's initialisation (SpecClientInit) *)

\* C36: client initialisation is once-only under concurrency: for every
\* interleaving of concurrent initClient() calls (the provider's effect running
\* again before the first call's SDK load has resolved, for one), the browser
\* SDK's configure is invoked at most once, and once the initialized flag is
\* set every later initClient() performs no configure.
C36_ConfiguredOnce ==
    /\ [](Len(configureCalls) <= 1)
    /\ [][ initialized /\ Calls("initClient") =>
             UNCHANGED <<configureCalls, pending>> ]_vars

====
